---- MODULE Spec2Model ----
(***************************************************************************)
(* Model of the mapping / evaluation core of IFT_tool:                     *)
(*   - yaml_apply._eval_expr           (expression evaluation)             *)
(*   - yaml_apply.integrate_yaml_to_template, template_write               *)
(*   - excel_read.read_xls_smart / read_xls_with_positions (header row)    *)
(*                                                                         *)
(* Text is a sequence of one-character strings, so that strip / lower /    *)
(* split are computed.  A Python value is a record [k, n, d, s]: k is the  *)
(* type, n/d a normalised fraction for numbers (floats are modelled as     *)
(* exact rationals), s the characters of a str.                            *)
(***************************************************************************)
EXTENDS Integers, Sequences, FiniteSets, TLC

VARIABLES
    pc,        \* position of the running operation
    expr,      \* _eval_expr: the expression text, as a sequence of tokens
    env,       \* _eval_expr: the variable environment (name -> value)
    ret,       \* _eval_expr: the returned value
    cfg,       \* integrate_yaml_to_template: the mapping configuration
    df_all,    \* integrate_yaml_to_template: the source table
    data,      \* integrate_yaml_to_template: the rows of the table in scope
    ws,        \* integrate_yaml_to_template: the worksheet of the copy, in memory
    rwrite,    \* integrate_yaml_to_template: number of rows written so far
    out_file,  \* integrate_yaml_to_template: the destination file on disk
    template,  \* integrate_yaml_to_template: the template file on disk
    targets_index, \* integrate_yaml_to_template: label -> columns of the header
    df0,       \* read_xls_*: the raw header-less grid
    hdr,       \* read_xls_*: the header decision and the table read
    wb,        \* integrate_yaml_to_template: sheet names of the workbook, sheet taken
    lab_cols,  \* label_duplicate_columns: the column names of the table given
    new_cols,  \* label_duplicate_columns: the column names returned
    codes,     \* valid_code_mask: the code column given
    mask,      \* valid_code_mask: the mask returned
    frames,    \* build_perimeter: the tables given
    result,    \* build_perimeter: (result, meta) returned, or the error raised
    first,     \* build_perimeter: what the previous run returned
    vspec,     \* _value_from_source_spec: the source-access spec
    sval,      \* _value_from_source_spec: the value returned
    text,      \* _parse_number / _to_float: the value given
    parsed,    \* _parse_number: the value returned
    floated,   \* _to_float: the value returned
    item_target,    \* _apply_number_format: the target label of the item
    number_format,  \* _apply_number_format: the number format of the cell
    template_df,    \* build_collateral_comparison: the template aggregates
    collateral_df,  \* build_collateral_comparison: the collateral report rows
    aliases,        \* build_collateral_comparison: the two alias mappings
    comparison,     \* build_collateral_comparison: the table returned
    book,           \* apply_*_to_workbook: the workbook file
    prev_book,      \* apply_*_to_workbook: the workbook file before the last pass
    sensis,         \* apply_sensis_to_workbook: the entries by code
    mtm_mapping,    \* apply_trioptima_to_workbook: the counterparty MTM by code
    report          \* apply_*_to_workbook: what the last pass returned

\* the variables of the column normaliser, the perimeter filter, the source
\* access and the numeric coercers
labVars == <<lab_cols, new_cols>>
perVars == <<codes, mask, frames, result, first>>
srcVars == <<vspec, sval>>
numVars == <<text, parsed, floated>>
\* the variables of the display format, of the reconciler and of the
\* enrichment passes
fmtVars == <<item_target, number_format>>
recVars == <<template_df, collateral_df, aliases, comparison>>
enrVars == <<book, prev_book, sensis, mtm_mapping, report>>
extVars == <<fmtVars, recVars, enrVars>>

libVars == <<labVars, perVars, srcVars, numVars, extVars>>

\* the variables of the evaluator, of the template writer and of the readers
coreVars == <<expr, env, ret, cfg, df_all, data, ws, rwrite, out_file, template,
              targets_index, df0, hdr, wb>>

vars == <<pc, expr, env, ret, cfg, df_all, data, ws, rwrite, out_file, template,
          targets_index, df0, hdr, wb, libVars>>

----------------------------------------------------------------------------
(* Bounds *)

MaxExprLen == 3      \* longest enumerated token sequence given to _eval_expr
MaxFloat == 1000     \* the largest finite float (sys.float_info.max)

----------------------------------------------------------------------------
(* Python values *)

Abs(i) == IF i < 0 THEN -i ELSE i

RECURSIVE Gcd(_, _)
Gcd(a, b) == IF b = 0 THEN a ELSE Gcd(b, a % b)

PyNone == [k |-> "none", n |-> 0, d |-> 1, s |-> <<>>]

\* a float, kept as the fraction n/d in lowest terms with d > 0
Num(a, b) ==
    LET g  == Gcd(Abs(a), Abs(b))
        sg == IF b < 0 THEN -1 ELSE 1
    IN  [k |-> "num", n |-> (sg * a) \div g, d |-> (sg * b) \div g, s |-> <<>>]

PyBool(b) == [k |-> "bool", n |-> (IF b THEN 1 ELSE 0), d |-> 1, s |-> <<>>]

PyStr(t) == [k |-> "str", n |-> 0, d |-> 1, s |-> t]

\* a datetime, as days after 1899-12-30
PyDate(a, b) == [Num(a, b) EXCEPT !.k = "date"]

\* the helper function object _div, an empty tuple, a raised exception
PyFunc  == [k |-> "func",  n |-> 0, d |-> 1, s |-> <<>>]
PyTuple == [k |-> "tuple", n |-> 0, d |-> 1, s |-> <<>>]
Raised  == [k |-> "exc",   n |-> 0, d |-> 1, s |-> <<>>]

\* float("inf") and float("-inf"): sgn is 1 or -1
PyInf(sgn) == [k |-> "inf", n |-> sgn, d |-> 1, s |-> <<>>]

\* float("nan"); also how pandas holds a missing cell
PyNaN == [k |-> "nan", n |-> 0, d |-> 1, s |-> <<>>]

\* an int (integer literals, int arithmetic)
PyInt(i) == [k |-> "int", n |-> i, d |-> 1, s |-> <<>>]

IsNumber(v) == v.k \in {"num", "int", "bool"}   \* a finite int or float
IsFloatLike(v) == IsNumber(v) \/ v.k \in {"inf", "nan"}  \* isinstance(v, (int, float))
IsIntLike(v) == v.k \in {"int", "bool"}         \* isinstance(v, int)

----------------------------------------------------------------------------
(* Text *)

NBSP == "nbsp"                       \* U+00A0
WhiteSpace == {" ", NBSP}

UpperChars == <<"A","B","C","D","E","F","G","H","I","J","K","L","M",
                "N","O","P","Q","R","S","T","U","V","W","X","Y","Z">>
LowerChars == <<"a","b","c","d","e","f","g","h","i","j","k","l","m",
                "n","o","p","q","r","s","t","u","v","w","x","y","z">>

LowerChar(c) ==
    IF \E i \in 1..26 : UpperChars[i] = c
    THEN LowerChars[CHOOSE i \in 1..26 : UpperChars[i] = c]
    ELSE c

Lower(t) == [i \in 1..Len(t) |-> LowerChar(t[i])]

RECURSIVE LStrip(_)
LStrip(t) == IF t # <<>> /\ Head(t) \in WhiteSpace THEN LStrip(Tail(t)) ELSE t

RECURSIVE RStrip(_)
RStrip(t) ==
    IF t # <<>> /\ t[Len(t)] \in WhiteSpace
    THEN RStrip(SubSeq(t, 1, Len(t) - 1)) ELSE t

Strip(t) == RStrip(LStrip(t))

\* str.split(): the maximal runs of non-whitespace characters
RECURSIVE SplitWords(_, _)
SplitWords(t, cur) ==
    IF t = <<>> THEN (IF cur = <<>> THEN <<>> ELSE <<cur>>)
    ELSE IF Head(t) \in WhiteSpace
         THEN (IF cur = <<>> THEN <<>> ELSE <<cur>>) \o SplitWords(Tail(t), <<>>)
         ELSE SplitWords(Tail(t), Append(cur, Head(t)))

RECURSIVE JoinWords(_)
JoinWords(ws_) ==
    IF ws_ = <<>> THEN <<>>
    ELSE IF Len(ws_) = 1 THEN ws_[1]
    ELSE ws_[1] \o <<" ">> \o JoinWords(Tail(ws_))

\* excel_read._norm: " ".join(str(s).strip().lower().split())
NormOf(t) == JoinWords(SplitWords(Lower(Strip(t)), <<>>))

\* the list of excel_read.EXPECTED_HEADERS, as written
ExpectedHeaderTexts == {
    <<"#", "T", "i", "c", "k", "e", "t">>,
    <<"T", "r", "a", "d", "e", " ", "I", "D">>,
    <<"E", "x", "t", "e", "r", "n", "a", "l", " ", "I", "d">>,
    <<"C", "o", "u", "n", "t", "e", "r", "p", "a", "r", "t", "y">>,
    <<"C", "u", "r", "r", "e", "n", "c", "y">>,
    <<"C", "l", "a", "s", "s">>,
    <<"C", "u", "s", "t", "o", "m", " ", "A", "t", "t", "r", "i", "b", "u", "t", "e", "5", " ", "V", "a", "l", "u", "e">>,
    <<"L", "e", "g", " ", "T", "y", "p", "e">>,
    <<"P", "a", "y", "/", "R", "e", "c">>,
    <<"I", "n", "d", "e", "x", "/", "F", "i", "x", "e", "d", " ", "R", "a", "t", "e">>,
    <<"S", "p", "r", "e", "a", "d", " ", "(", "b", "p", ")">>,
    <<"S", "t", "a", "r", "t", " ", "D", "a", "t", "e">>,
    <<"E", "n", "d", " ", "D", "a", "t", "e">>,
    <<"N", "o", "t", "i", "o", "n", "a", "l">>,
    <<"D", "i", "r", "t", "y", " ", "V", "a", "l", "u", "e">>,
    <<"C", "l", "e", "a", "n", " ", "V", "a", "l", "u", "e">>,
    <<"A", "c", "c", "r", "u", "e", "d", " ", "I", "n", "t", "e", "r", "e", "s", "t">> }

\* the texts the configurations, headers and tables below are written with;
\* their normal forms are computed once
KnownTexts == ExpectedHeaderTexts \cup {
    <<"T", "r", "a", "d", "e", " ", "I", "D">>, <<"nbsp", "c", "u", "r", "r", "e", "n", "c", "y", " ">>, <<"N", "O", "T", "I", "O", "N", "A", "L">>, <<"f", "o", "o">>, <<"n", "a", "n">>, <<"#", "num">>,
    <<"C", "u", "s", "t", "o", "m", " ", "A", "t", "t", "r", "i", "b", "u", "t", "e", "5", " ", "V", "a", "l", "u", "e">>,
    <<"C", "u", "s", "t", "o", "m", "nbsp", "A", "t", "t", "r", "i", "b", "u", "t", "e", "5", "nbsp", "V", "a", "l", "u", "e">>, <<"c", "u", "s", "t", "o", "m", "nbsp", "nbsp", "a", "t", "t", "r", "i", "b", "u", "t", "e", "5", "nbsp", "V", "A", "L", "U", "E">>, <<"C", "o", "d", "e", "nbsp", "D", "I">>,
    <<"C", "o", "d", "e">>, <<"nbsp", "c", "o", "d", "e", "nbsp">>, <<"P", "r", "i", "c", "e">>, <<"p", "r", "i", "c", "e">>, <<"P", "R", "I", "C", "E">>, <<"S", "t", "a", "r", "t", "nbsp", "D", "a", "t", "e">>, <<"S", "t", "a", "r", "t", "nbsp", "nbsp", "D", "a", "t", "e">>,
    <<"E", "n", "d", "nbsp", "D", "a", "t", "e">>, <<"D", "i", "r", "t", "y", "nbsp", "V", "a", "l", "u", "e", "(", "%", ")">>, <<"X">>, <<"Y">>, <<"nbsp", "y", "nbsp">>, <<"o", "l", "d">>,
    <<"C", "o", "d", "e", " ", "D", "I">>, <<"C", "l", "a", "s", "s", "i", "f", " ", "D", "I">> }

NormTable == [t \in KnownTexts |-> NormOf(t)]

_norm(t) == IF t \in KnownTexts THEN NormTable[t] ELSE NormOf(t)

----------------------------------------------------------------------------
(* Expression text handed to eval(): a sequence of tokens.                  *)
(* The grammar is Python's expression grammar restricted to the tokens      *)
(* below; a comma is modelled inside call arguments only.                   *)

VarNames   == {"x", "y"}                   \* names of the variable table
NameTokens == VarNames \cup {"z", "_div"}  \* "z" is in no table
NumTokens  == {"0", "2"}
NumValue(t) == IF t = "0" THEN 0 ELSE 2

Node(op, id, n, args) == [op |-> op, id |-> id, n |-> n, args |-> args]
NilNode == Node("nil", "", 0, <<>>)

POk(ast, rest) == [ok |-> TRUE, ast |-> ast, rest |-> rest]
PFail == [ok |-> FALSE, ast |-> NilNode, rest |-> <<>>]

IsTok(ts, t) == ts # <<>> /\ Head(ts) = t
IsTokIn(ts, S) == ts # <<>> /\ Head(ts) \in S

\* The recursive-descent parser, one operator for all non-terminals.
\*   nt    the non-terminal to parse at the head of ts
\*   left  the operand (or the list node of operands) parsed so far, for the
\*         non-terminals that continue one
\* atom:       NAME | NUMBER | None | "(" ")" | "(" test ")"
\* trailers:   ("(" [test ("," test)*] ")" | "." NAME)*      call, attribute
\* factor:     ("+" | "-") factor | atom trailers
\* term:       factor (("*" | "/") factor)*                  left associative
\* arith:      term (("+" | "-") term)*                      left associative
\* comparison: arith ("<" arith)*                            one chained node
\* or_test:    comparison ("or" comparison)*
\* test:       or_test ["if" or_test "else" test]
RECURSIVE Parse(_, _, _)
Parse(nt, left, ts) ==
    CASE nt = "atom" ->
            IF ts = <<>> THEN PFail
            ELSE IF Head(ts) \in NameTokens \cup {"None"}
                 THEN POk(Node("name", Head(ts), 0, <<>>), Tail(ts))
            ELSE IF Head(ts) \in NumTokens
                 THEN POk(Node("num", "", NumValue(Head(ts)), <<>>), Tail(ts))
            ELSE IF Head(ts) = "("
                 THEN IF IsTok(Tail(ts), ")")
                      THEN POk(Node("tuple", "", 0, <<>>), Tail(Tail(ts)))
                      ELSE LET e == Parse("test", NilNode, Tail(ts))
                           IN  IF e.ok /\ IsTok(e.rest, ")")
                               THEN POk(e.ast, Tail(e.rest)) ELSE PFail
            ELSE PFail
      [] nt = "args" ->            \* left: the list node of the arguments so far
            LET e == Parse("test", NilNode, ts)
                l == Node("list", "", 0, Append(left.args, e.ast))
            IN  IF ~e.ok THEN PFail
                ELSE IF IsTok(e.rest, ")") THEN POk(l, Tail(e.rest))
                ELSE IF IsTok(e.rest, ",") THEN Parse("args", l, Tail(e.rest))
                ELSE PFail
      [] nt = "trailers" ->
            IF IsTok(ts, "(")
            THEN IF IsTok(Tail(ts), ")")
                 THEN Parse("trailers", Node("call", "", 0, <<left>>), Tail(Tail(ts)))
                 ELSE LET a == Parse("args", Node("list", "", 0, <<>>), Tail(ts))
                      IN  IF a.ok
                          THEN Parse("trailers",
                                     Node("call", "", 0, <<left>> \o a.ast.args), a.rest)
                          ELSE PFail
            ELSE IF IsTok(ts, ".")
            THEN IF IsTokIn(Tail(ts), NameTokens \cup {"real"})
                 THEN Parse("trailers", Node("attr", Head(Tail(ts)), 0, <<left>>),
                            Tail(Tail(ts)))
                 ELSE PFail
            ELSE POk(left, ts)
      [] nt = "factor" ->
            IF IsTokIn(ts, {"+", "-"})
            THEN LET f == Parse("factor", NilNode, Tail(ts))
                 IN  IF f.ok
                     THEN POk(Node(IF Head(ts) = "-" THEN "usub" ELSE "uadd", "", 0,
                                   <<f.ast>>), f.rest)
                     ELSE PFail
            ELSE LET a == Parse("atom", NilNode, ts)
                 IN  IF a.ok THEN Parse("trailers", a.ast, a.rest) ELSE PFail
      [] nt \in {"term", "arith", "comparison", "or_test"} ->
            LET sub == CASE nt = "term" -> "factor" [] nt = "arith" -> "term"
                         [] nt = "comparison" -> "arith" [] OTHER -> "comparison"
                f   == Parse(sub, NilNode, ts)
            IN  IF ~f.ok THEN PFail
                ELSE IF nt \in {"term", "arith"} THEN Parse(nt \o "_rest", f.ast, f.rest)
                ELSE Parse(nt \o "_rest", Node("list", "", 0, <<f.ast>>), f.rest)
      [] nt \in {"term_rest", "arith_rest"} ->
            IF IsTokIn(ts, IF nt = "term_rest" THEN {"*", "/"} ELSE {"+", "-"})
            THEN LET f == Parse(IF nt = "term_rest" THEN "factor" ELSE "term",
                                NilNode, Tail(ts))
                 IN  IF f.ok
                     THEN Parse(nt, Node(Head(ts), "", 0, <<left, f.ast>>), f.rest)
                     ELSE PFail
            ELSE POk(left, ts)
      [] nt \in {"comparison_rest", "or_test_rest"} ->   \* left: the operand list
            LET tok == IF nt = "comparison_rest" THEN "<" ELSE "or"
            IN  IF IsTok(ts, tok)
                THEN LET a == Parse(IF tok = "<" THEN "arith" ELSE "comparison",
                                    NilNode, Tail(ts))
                     IN  IF a.ok
                         THEN Parse(nt, Node("list", "", 0, Append(left.args, a.ast)),
                                    a.rest)
                         ELSE PFail
                ELSE POk(IF Len(left.args) = 1 THEN left.args[1]
                         ELSE Node(tok, "", 0, left.args), ts)
      [] nt = "test" ->
            LET b == Parse("or_test", NilNode, ts)
            IN  IF ~b.ok THEN PFail
                ELSE IF IsTok(b.rest, "if")
                THEN LET c == Parse("or_test", NilNode, Tail(b.rest))
                     IN  IF c.ok /\ IsTok(c.rest, "else")
                         THEN LET o == Parse("test", NilNode, Tail(c.rest))
                              IN  IF o.ok
                                  THEN POk(Node("ifexp", "", 0, <<b.ast, c.ast, o.ast>>),
                                           o.rest)
                                  ELSE PFail
                         ELSE PFail
                ELSE b

ParseTest(ts) == Parse("test", NilNode, ts)

\* compile(expr, "eval"): the whole text must be one expression
ParseExpr(ts) ==
    LET e == ParseTest(ts)
    IN  IF e.ok /\ e.rest = <<>> THEN e ELSE PFail

----------------------------------------------------------------------------
(* Evaluation of the parsed expression, as the Python interpreter does it.  *)
(* Any exception is the single value Raised.                                *)

Truthy(v) ==
    CASE v.k = "none"  -> FALSE
      [] v.k = "tuple" -> FALSE          \* only the empty tuple is modelled
      [] v.k = "func"  -> TRUE
      [] v.k = "nan"   -> TRUE
      [] OTHER         -> v.n # 0

Sign(v) == IF v.n > 0 THEN 1 ELSE IF v.n < 0 THEN -1 ELSE 0

\* a float result: beyond the largest finite float it is an infinity
Rounded(r) == IF Abs(r.n) > MaxFloat * r.d THEN PyInf(Sign(r)) ELSE r

\* finite number (+ - * /) finite number, the divisor not 0; int op int stays
\* int except for true division
ArithNum(op, a, b) ==
    LET Result(r) ==
            IF op # "/" /\ IsIntLike(a) /\ IsIntLike(b) THEN PyInt(r.n) ELSE Rounded(r)
    IN  CASE op = "+" -> Result(Num(a.n * b.d + b.n * a.d, a.d * b.d))
          [] op = "-" -> Result(Num(a.n * b.d - b.n * a.d, a.d * b.d))
          [] op = "*" -> Result(Num(a.n * b.n, a.d * b.d))
          [] op = "/" -> Result(Num(a.n * b.d, a.d * b.n))

\* float arithmetic with an infinite or nan operand, the divisor not 0
ArithNonFinite(op, a, b) ==
    LET Add(sa, sb) ==      \* sa, sb: 1 / -1 for an infinity, 0 for a finite number
            IF sa # 0 /\ sb # 0 /\ sa # sb THEN PyNaN
            ELSE PyInf(IF sa # 0 THEN sa ELSE sb)
        Inf(v) == IF v.k = "inf" THEN v.n ELSE 0
    IN  IF a.k = "nan" \/ b.k = "nan" THEN PyNaN
        ELSE CASE op = "+" -> Add(Inf(a), Inf(b))
               [] op = "-" -> Add(Inf(a), -Inf(b))
               [] op = "*" -> IF Sign(a) * Sign(b) = 0 THEN PyNaN
                              ELSE PyInf(Sign(a) * Sign(b))
               [] op = "/" -> IF a.k = "inf" /\ b.k = "inf" THEN PyNaN
                              ELSE IF b.k = "inf" THEN Num(0, 1)
                              ELSE PyInf(Sign(a) * Sign(b))

\* BinOp with true division by zero giving an infinite float, not an exception
BinOp_DivZeroInf(op, a, b) ==
    IF IsNumber(a) /\ IsNumber(b)
    THEN IF op = "/" /\ b.n = 0 THEN PyInf(1)
         ELSE ArithNum(op, a, b)
    ELSE IF IsFloatLike(a) /\ IsFloatLike(b)
    THEN IF op = "/" /\ IsNumber(b) /\ b.n = 0 THEN PyInf(1)
         ELSE ArithNonFinite(op, a, b)
    ELSE Raised

\* BinOp with a None operand of + - * read as 0
BinOp_NoneAsZero(op, a, b) ==
    LET z(v) == IF v.k = "none" /\ op # "/" THEN Num(0, 1) ELSE v
    IN  IF IsNumber(z(a)) /\ IsNumber(z(b))
        THEN IF op = "/" /\ b.n = 0 THEN Raised ELSE ArithNum(op, z(a), z(b))
        ELSE IF IsFloatLike(z(a)) /\ IsFloatLike(z(b))
        THEN IF op = "/" /\ IsNumber(b) /\ b.n = 0 THEN Raised
             ELSE ArithNonFinite(op, z(a), z(b))
        ELSE Raised

\* the binary operators of float / int / tuple; anything else is a TypeError
BinOp(op, a, b) ==
    IF IsNumber(a) /\ IsNumber(b)
    THEN IF op = "/" /\ b.n = 0 THEN Raised     \* ZeroDivisionError
         ELSE ArithNum(op, a, b)
    ELSE IF IsFloatLike(a) /\ IsFloatLike(b)
    THEN IF op = "/" /\ IsNumber(b) /\ b.n = 0 THEN Raised
         ELSE ArithNonFinite(op, a, b)
    ELSE IF op = "+" /\ a.k = "tuple" /\ b.k = "tuple" THEN PyTuple
    ELSE IF op = "*" /\ ((a.k = "tuple" /\ IsIntLike(b)) \/ (IsIntLike(a) /\ b.k = "tuple"))
         THEN PyTuple
    ELSE Raised

UnaryOp(op, a) ==
    IF a.k = "nan" THEN a
    ELSE IF a.k = "inf" THEN PyInf(IF op = "uadd" THEN a.n ELSE -a.n)
    ELSE IF ~IsNumber(a) THEN Raised
    ELSE IF op = "uadd" THEN (IF a.k = "bool" THEN PyInt(a.n) ELSE a)
    ELSE IF a.k = "num" THEN Num(-a.n, a.d) ELSE PyInt(-a.n)

\* a < b
Less(a, b) ==
    IF IsNumber(a) /\ IsNumber(b) THEN PyBool(a.n * b.d < b.n * a.d)
    ELSE IF IsFloatLike(a) /\ IsFloatLike(b)
    THEN PyBool(/\ a.k # "nan" /\ b.k # "nan"
                /\ \/ a.k = "inf" /\ a.n = -1 /\ b # a
                   \/ b.k = "inf" /\ b.n = 1 /\ b # a)
    ELSE IF a.k = "tuple" /\ b.k = "tuple" THEN PyBool(FALSE)
    ELSE Raised

\* yaml_apply._eval_expr._div
_div(a, b) ==
    IF a.k = "none" \/ b.k = "none" \/ (IsNumber(b) /\ b.n = 0) THEN PyNone
    ELSE BinOp("/", a, b)

RECURSIVE Eval(_, _), EvalCmp(_, _, _), EvalOr(_, _), EvalArgs(_, _)

\* the values of the argument expressions, or <<Raised>> at the first exception
EvalArgs(nodes, allowed) ==
    IF nodes = <<>> THEN <<>>
    ELSE LET v == Eval(Head(nodes), allowed)
         IN  IF v.k = "exc" THEN <<Raised>>
             ELSE LET r == EvalArgs(Tail(nodes), allowed)
                  IN  IF r # <<>> /\ r[1].k = "exc" THEN <<Raised>> ELSE <<v>> \o r

\* a < b < c ... : left is the value of the operand already evaluated
EvalCmp(left, nodes, allowed) ==
    LET r == Eval(Head(nodes), allowed)
        c == Less(left, r)
    IN  IF r.k = "exc" THEN Raised
        ELSE IF c.k = "exc" THEN Raised
        ELSE IF ~Truthy(c) \/ Len(nodes) = 1 THEN c
        ELSE EvalCmp(r, Tail(nodes), allowed)

\* a or b or ... : the first truthy operand, else the last one
EvalOr(nodes, allowed) ==
    LET v == Eval(Head(nodes), allowed)
    IN  IF v.k = "exc" THEN Raised
        ELSE IF Truthy(v) \/ Len(nodes) = 1 THEN v
        ELSE EvalOr(Tail(nodes), allowed)

Eval(node, allowed) ==
    CASE node.op = "name" ->
            IF node.id \in DOMAIN allowed THEN allowed[node.id] ELSE Raised  \* NameError
      [] node.op = "num" -> PyInt(node.n)
      [] node.op = "tuple" -> PyTuple
      [] node.op \in {"uadd", "usub"} ->
            LET a == Eval(node.args[1], allowed)
            IN  IF a.k = "exc" THEN Raised ELSE UnaryOp(node.op, a)
      [] node.op \in {"+", "-", "*", "/"} ->
            LET a == Eval(node.args[1], allowed)
                b == Eval(node.args[2], allowed)
            IN  IF a.k = "exc" \/ b.k = "exc" THEN Raised ELSE BinOp(node.op, a, b)
      [] node.op = "<" ->
            LET a == Eval(node.args[1], allowed)
            IN  IF a.k = "exc" THEN Raised ELSE EvalCmp(a, Tail(node.args), allowed)
      [] node.op = "or" -> EvalOr(node.args, allowed)
      [] node.op = "ifexp" ->
            LET t == Eval(node.args[2], allowed)
            IN  IF t.k = "exc" THEN Raised
                ELSE IF Truthy(t) THEN Eval(node.args[1], allowed)
                ELSE Eval(node.args[3], allowed)
      [] node.op = "call" ->
            LET f == Eval(node.args[1], allowed)
                a == EvalArgs(Tail(node.args), allowed)
            IN  IF f.k = "exc" THEN Raised
                ELSE IF a # <<>> /\ a[1].k = "exc" THEN Raised
                ELSE IF f.k = "func" /\ Len(a) = 2 THEN _div(a[1], a[2])
                ELSE Raised                                     \* TypeError
      [] node.op = "attr" ->
            LET a == Eval(node.args[1], allowed)
            IN  IF a.k = "exc" THEN Raised
                ELSE IF node.id = "real" /\ IsFloatLike(a)
                     THEN (IF a.k = "bool" THEN PyInt(a.n) ELSE a)
                ELSE Raised                                     \* AttributeError
      [] OTHER -> Raised

\* float(v) of a number, None kept
ToFloat(v) == IF IsNumber(v) THEN Num(v.n, v.d) ELSE v

\* a variant of _eval_expr without the "except Exception: return None"
_eval_expr_NoCatch(e, en) ==
    LET allowed == [nm \in DOMAIN en \cup {"_div", "None"} |->
                       IF nm = "_div" THEN PyFunc
                       ELSE IF nm = "None" THEN PyNone
                       ELSE ToFloat(en[nm])]
        EvalParsed(p) == IF p.ok THEN Eval(p.ast, allowed) ELSE Raised
    IN  EvalParsed(ParseExpr(e))

\* yaml_apply._eval_expr: eval(expr, {"__builtins__": {}}, allowed), None on
\* any exception.  env holds floats or None; a name bound to None is kept.
_eval_expr(e, en) ==
    LET safe_env == [nm \in DOMAIN en |-> ToFloat(en[nm])]
        allowed == [nm \in DOMAIN en \cup {"_div", "None"} |->
                       IF nm = "_div" THEN PyFunc
                       ELSE IF nm = "None" THEN PyNone
                       ELSE safe_env[nm]]
        EvalParsed(p) == IF p.ok THEN Eval(p.ast, allowed) ELSE Raised  \* SyntaxError
        NoneIfRaised(v) == IF v.k = "exc" THEN PyNone ELSE v
    IN  NoneIfRaised(EvalParsed(ParseExpr(e)))

----------------------------------------------------------------------------
(* Specification SpecEval: one call of _eval_expr on a bounded input.       *)

ArithTokens == {"x", "y", "+", "-", "*", "/", "(", ")"}

TokenSeqs(S, n) == UNION {[1..k -> S] : k \in 0..n}

\* longer expressions, and the constructs outside the arithmetic grammar
CuratedExprs == {
    <<"(", "x", "+", "y", ")", "*", "x">>,
    <<"x", "-", "y", "/", "x">>,
    <<"x", "/", "(", "y", "-", "y", ")">>,
    <<"x", "*", "-", "y", "+", "x">>,
    <<"x", "/", "2">>,
    <<"x", "/", "0">>,
    <<"2", "+">>,
    <<"z">>,
    <<"x", "+", "z">>,
    <<"None">>,
    <<"_div">>,
    <<"x", "<", "y">>,
    <<"x", "<", "y", "<", "x">>,
    <<"x", "or", "0">>,
    <<"x", "if", "y", "else", "2">>,
    <<"_div", "(", "x", ",", "y", ")">>,
    <<"x", ".", "real">> }

Exprs == TokenSeqs(ArithTokens, MaxExprLen) \cup CuratedExprs

\* what _parse_number leaves in the environment: a float or None
EnvValues ==
    {PyNone, Num(0, 1), Num(5, 1), Num(10, 1), Num(MaxFloat, 1), Num(1, MaxFloat), PyInf(1)}

Idle == <<>>
Unset == [k |-> "unset", n |-> 0, d |-> 1, s |-> <<>>]

\* the values of the variables an operation does not use
LabIdle == lab_cols = Idle /\ new_cols = Idle
PerIdle == codes = Idle /\ mask = Idle /\ frames = Idle /\ result = Idle /\ first = Idle
SrcIdle == vspec = Idle /\ sval = Idle
NumIdle == text = Idle /\ parsed = Idle /\ floated = Idle
FmtIdle == item_target = Idle /\ number_format = Idle
RecIdle == template_df = Idle /\ collateral_df = Idle /\ aliases = Idle /\ comparison = Idle
EnrIdle ==
    book = Idle /\ prev_book = Idle /\ sensis = Idle /\ mtm_mapping = Idle /\ report = Idle
ExtIdle == FmtIdle /\ RecIdle /\ EnrIdle
LibIdle == LabIdle /\ PerIdle /\ SrcIdle /\ NumIdle /\ ExtIdle
EvalIdle == expr = Idle /\ env = Idle /\ ret = Unset
IntIdle ==
    /\ cfg = Idle /\ df_all = Idle /\ data = Idle /\ ws = Idle /\ rwrite = 0 /\ out_file = Idle
    /\ template = Idle /\ targets_index = Idle /\ wb = Idle
HdrIdle == df0 = Idle /\ hdr = Idle
CoreIdle == EvalIdle /\ IntIdle /\ HdrIdle

InitEval ==
    /\ pc = "eval_call"
    /\ expr \in Exprs
    /\ env \in [VarNames -> EnvValues]
    /\ ret = Unset
    /\ cfg = Idle /\ df_all = Idle /\ data = Idle /\ ws = Idle /\ rwrite = 0 /\ out_file = Idle
    /\ template = Idle /\ targets_index = Idle
    /\ df0 = Idle /\ hdr = Idle /\ wb = Idle /\ LibIdle

EvalExpr ==
    /\ pc = "eval_call"
    /\ ret' = _eval_expr(expr, env)
    /\ pc' = "eval_done"
    /\ UNCHANGED <<expr, env, cfg, df_all, data, ws, rwrite, out_file, template,
                   targets_index, df0, hdr, wb, libVars>>

NextEval == EvalExpr

SpecEval == InitEval /\ [][NextEval]_vars

----------------------------------------------------------------------------
(* Claims on _eval_expr, checked under SpecEval *)

RECURSIVE IsArith(_), RefVars(_), InGrammar(_)

\* built from declared variables, + - * / (binary or as a sign) and parentheses
IsArith(node) ==
    \/ node.op = "name" /\ node.id \in VarNames
    \/ /\ node.op \in {"+", "-", "*", "/", "uadd", "usub"}
       /\ \A i \in 1..Len(node.args) : IsArith(node.args[i])

\* the variables an expression refers to
RefVars(node) ==
    IF node.op = "name" THEN {node.id} \cap VarNames
    ELSE UNION {RefVars(node.args[i]) : i \in 1..Len(node.args)}

\* the restricted grammar: IsArith plus numeric literals
InGrammar(node) ==
    \/ node.op = "name" /\ node.id \in VarNames
    \/ node.op = "num"
    \/ /\ node.op \in {"+", "-", "*", "/", "uadd", "usub"}
       /\ \A i \in 1..Len(node.args) : InGrammar(node.args[i])

IsVarDivision(e) ==
    Len(e) = 3 /\ e[1] \in VarNames /\ e[2] = "/" /\ e[3] \in VarNames

\* C2: _eval_expr on a / b returns None when a is None, when b is None or when
\* b = 0, and the float quotient a/b otherwise (10 / 5 = 2.0); the call always
\* returns (no exception); the result is an infinity only where an operand is
\* one or the quotient is beyond the largest finite float, never for b = 0.
C2_DivisionNullOrQuotient ==
    (pc = "eval_done" /\ IsVarDivision(expr)) =>
        LET a == env[expr[1]]
            b == env[expr[3]]
        IN  /\ ret.k \in {"none", "num", "inf", "nan"}
            /\ (a.k = "none" \/ b.k = "none" \/ (b.k = "num" /\ b.n = 0)) => ret = PyNone
            /\ (a.k = "num" /\ b.k = "num" /\ b.n # 0) =>
                   IF Abs(a.n * b.d) > MaxFloat * Abs(a.d * b.n)
                   THEN ret.k = "inf"
                   ELSE ret.k = "num" /\ ret.n * a.d * b.n = a.n * b.d * ret.d
            /\ ret.k \in {"inf", "nan"} =>
                   \/ a.k = "inf" \/ b.k = "inf"
                   \/ /\ a.k = "num" /\ b.k = "num" /\ b.n # 0
                      /\ Abs(a.n * b.d) > MaxFloat * Abs(a.d * b.n)
            /\ (a = Num(10, 1) /\ b = Num(5, 1)) => ret = Num(2, 1)

\* C2 as stated: None for a null operand or b = 0, the quotient otherwise, and
\* never an infinity
C2_NeverInfinity ==
    (pc = "eval_done" /\ IsVarDivision(expr) /\ env[expr[1]].k # "inf"
        /\ env[expr[3]].k # "inf") =>
        LET a == env[expr[1]]
            b == env[expr[3]]
        IN  /\ ret.k \in {"none", "num"}
            /\ (a.k = "none" \/ b.k = "none" \/ b.n = 0) => ret = PyNone
            /\ (a.k # "none" /\ b.k # "none" /\ b.n # 0) =>
                   ret.k = "num" /\ ret.n * a.d * b.n = a.n * b.d * ret.d

C2_Witness ==
    /\ pc = "eval_done" /\ expr = <<"x", "/", "y">>
    /\ env["x"] = Num(10, 1) /\ env["y"] = Num(0, 1) /\ ret = PyNone

\* C3: for every expression built from + - * / and parentheses over declared
\* variables, if a variable the expression refers to is None, _eval_expr
\* returns None.
C3_NullPropagation ==
    (pc = "eval_done" /\ ParseExpr(expr).ok /\ IsArith(ParseExpr(expr).ast)) =>
        ((\E v \in RefVars(ParseExpr(expr).ast) : env[v] = PyNone) => ret = PyNone)

C3_Witness ==
    /\ pc = "eval_done" /\ expr = <<"x", "*", "y">>
    /\ env["x"] = Num(5, 1) /\ env["y"] = PyNone /\ ret = PyNone

\* C5: an expression using a construct outside the restricted arithmetic grammar
\* (comparison, boolean operator, conditional, attribute access, call, a name
\* that is not in the variable table) is not evaluated to a value: the result
\* is None.
C5_OnlyArithmeticEvaluated ==
    (pc = "eval_done" /\ ~(ParseExpr(expr).ok /\ InGrammar(ParseExpr(expr).ast))) =>
        ret = PyNone

----------------------------------------------------------------------------
(* Cell values of the source table and casts by target label                *)

UpperChar(c) ==
    IF \E i \in 1..26 : LowerChars[i] = c
    THEN UpperChars[CHOOSE i \in 1..26 : LowerChars[i] = c]
    ELSE c

Upper(t) == [i \in 1..Len(t) |-> UpperChar(t[i])]

Digits == <<"0", "1", "2", "3", "4", "5", "6", "7", "8", "9">>
IsDigit(c) == \E i \in 1..10 : Digits[i] = c
DigitValue(c) == (CHOOSE i \in 1..10 : Digits[i] = c) - 1

RECURSIVE Pow10(_)
Pow10(k) == IF k = 0 THEN 1 ELSE 10 * Pow10(k - 1)

RECURSIVE DigitsValue(_, _)
DigitsValue(t, acc) ==
    IF t = <<>> THEN acc ELSE DigitsValue(Tail(t), 10 * acc + DigitValue(Head(t)))

\* str(n) for an int n >= 0
RECURSIVE IntText(_)
IntText(n) ==
    LET D(k) == <<"0", "1", "2", "3", "4", "5", "6", "7", "8", "9">>[k + 1]
    IN  IF n < 10 THEN <<D(n)>> ELSE Append(IntText(n \div 10), D(n % 10))

RemoveChars(t, S) == SelectSeq(t, LAMBDA c : c \notin S)
ReplaceChar(t, a, b) == [i \in 1..Len(t) |-> IF t[i] = a THEN b ELSE t[i]]

\* float(s) for decimal text: [sign] digits [. digits], at least one digit;
\* anything else raises ValueError (Raised).  Exponents, "inf", "nan" and "_"
\* are outside the modelled alphabet.
FloatOfText(t0) ==
    LET Parts(neg, ip, fp, ndots) ==    \* sign, integer part, fraction part
            IF /\ ndots <= 1
               /\ Len(ip) + Len(fp) >= 1
               /\ \A i \in 1..Len(ip \o fp) : IsDigit((ip \o fp)[i])
            THEN Num((IF neg THEN -1 ELSE 1) * DigitsValue(ip \o fp, 0), Pow10(Len(fp)))
            ELSE Raised
        Body(neg, body, dots) ==
            IF dots = {} THEN Parts(neg, body, <<>>, 0)
            ELSE Parts(neg, SubSeq(body, 1, (CHOOSE i \in dots : TRUE) - 1),
                       SubSeq(body, (CHOOSE i \in dots : TRUE) + 1, Len(body)),
                       Cardinality(dots))
        Signed(neg, body) == Body(neg, body, {i \in 1..Len(body) : body[i] = "."})
        Stripped(t) ==
            IF t # <<>> /\ Head(t) \in {"+", "-"} THEN Signed(Head(t) = "-", Tail(t))
            ELSE Signed(FALSE, t)
    IN  Stripped(Strip(t0))

\* yaml_apply._parse_number
_parse_number(x) ==
    IF x.k \in {"none", "nan"} THEN PyNone
    ELSE IF IsNumber(x) THEN ToFloat(x)
    ELSE IF x.k = "inf" THEN x
    ELSE IF x.k = "str"
         THEN LET NoneIfRaised(f) == IF f.k = "exc" THEN PyNone ELSE f
                  OfStripped(s1) ==
                      IF s1 = <<>> THEN PyNone
                      ELSE NoneIfRaised(FloatOfText(
                               ReplaceChar(RemoveChars(ReplaceChar(s1, NBSP, " "),
                                                       {" ", "'"}), ",", ".")))
              IN  OfStripped(Strip(x.s))
    ELSE PyNone        \* str() of a date, tuple or function is no number

\* yaml_apply._parse_date.  textparses: whether pandas.to_datetime accepts the
\* text str(x) (library behaviour that depends on the text; both outcomes are
\* kept where the text is not modelled further).
_parse_date(x, textparses) ==
    IF x.k \in {"none", "nan"} THEN PyNone
    ELSE IF x.k = "date" THEN x
    ELSE IF IsNumber(x) /\ x.n > 59 * x.d THEN PyDate(x.n, x.d)
    ELSE IF x.k = "str" /\ Strip(x.s) = <<>> THEN PyNone
    ELSE IF textparses THEN PyDate(0, 1)
    ELSE PyNone

NUMERIC_TARGETS == { _norm(t) : t \in {
    <<"N", "o", "t", "i", "o", "n", "a", "l">>, <<"D", "i", "r", "t", "y", " ", "V", "a", "l", "u", "e">>, <<"C", "l", "e", "a", "n", " ", "V", "a", "l", "u", "e">>, <<"A", "c", "c", "r", "u", "e", "d", " ", "I", "n", "t", "e", "r", "e", "s", "t">>, <<"S", "p", "r", "e", "a", "d", " ", "(", "b", "p", ")">>,
    <<"D", "i", "r", "t", "y", " ", "V", "a", "l", "u", "e", "(", "%", ")">>, <<"C", "l", "e", "a", "n", " ", "V", "a", "l", "u", "e", "(", "%", ")">>, <<"A", "c", "c", "r", "u", "e", "d", " ", "I", "n", "t", "e", "r", "e", "s", "t", "(", "%", ")">> } }

PERCENT_TARGETS == { _norm(t) : t \in {
    <<"D", "i", "r", "t", "y", " ", "V", "a", "l", "u", "e", "(", "%", ")">>, <<"C", "l", "e", "a", "n", " ", "V", "a", "l", "u", "e", "(", "%", ")">>, <<"A", "c", "c", "r", "u", "e", "d", " ", "I", "n", "t", "e", "r", "e", "s", "t", "(", "%", ")">> } }

DATE_TARGETS == { _norm(t) : t \in { <<"S", "t", "a", "r", "t", " ", "D", "a", "t", "e">>, <<"E", "n", "d", " ", "D", "a", "t", "e">> } }

\* yaml_apply._cast_for_target; target_label = <<>> when the item has none
_cast_for_target(target_label, value, textparses) ==
    LET ByKey(k) ==
            IF k \in NUMERIC_TARGETS \/ k \in PERCENT_TARGETS THEN _parse_number(value)
            ELSE IF k \in DATE_TARGETS THEN _parse_date(value, textparses)
            ELSE value
    IN  ByKey(IF target_label # <<>> THEN _norm(target_label) ELSE <<>>)

----------------------------------------------------------------------------
(* Source table, perimeter mask, source access                              *)

\* data_rules._INVALID_CODE_RE, case-insensitive: the whole text is a sentinel
InvalidCodes == { <<"n", "a", "n">>, <<"n", "o", "n", "e">>, <<"n", "u", "l", "l">>, <<"n", "a">>, <<"n", "/", "a">>, <<"#", "n", "a">>, <<"#", "n", "/", "a">>, <<"-">>, <<"emdash">> }

\* str(v) as pandas' astype(str) gives it, for the cell values modelled
StrOf(v) ==
    CASE v.k = "str"  -> v.s
      [] v.k = "nan"  -> <<"n", "a", "n">>
      [] v.k = "none" -> <<"N", "o", "n", "e">>
      [] OTHER        -> <<"#", v.k>>      \* a number or a date: never a label

\* a variant of valid_code_mask that looks for a sentinel anywhere in the text
valid_code_mask_Search(v) ==
    LET s_str == Strip(ReplaceChar(StrOf(v), NBSP, " "))
        Found(t) == \E a \in 1..Len(s_str), b \in 1..Len(s_str) :
                        a <= b /\ Lower(SubSeq(s_str, a, b)) = t
    IN  /\ v.k \notin {"nan", "none"}
        /\ s_str # <<>>
        /\ ~\E t \in InvalidCodes : Found(t)

\* data_rules.valid_code_mask, for one cell
valid_code_mask(v) ==
    LET s_isna == v.k \in {"nan", "none"}
        s_str  == Strip(ReplaceChar(StrOf(v), NBSP, " "))
        s_bad  == s_str = <<>> \/ Lower(s_str) \in InvalidCodes
    IN  ~s_isna /\ ~s_bad

\* index of the first column of that name, 0 when there is none
ColumnIndex(columns, name) ==
    IF \E i \in 1..Len(columns) : columns[i] = name
    THEN CHOOSE i \in 1..Len(columns) :
             columns[i] = name /\ \A j \in 1..(i - 1) : columns[j] # name
    ELSE 0

\* excel_read.get_col(df, logical_name, required=False): the first column whose
\* normalised name equals the normalised logical name, <<>> (None) otherwise
get_col(columns, logical_name) ==
    LET target == _norm(logical_name)
        hits   == {i \in 1..Len(columns) : _norm(columns[i]) = target}
    IN  IF hits = {} THEN <<>>
        ELSE columns[CHOOSE i \in hits : \A j \in hits : i <= j]

\* row.get(colname): the row's cell of that column, None when absent
RowGet(df, row, colname) ==
    LET At(i) == IF i = 0 THEN PyNone ELSE row.vals[i]
    IN  At(ColumnIndex(df.columns, colname))

\* str.startswith and the test "sub in t"
StartsWith(t, pre) == Len(pre) <= Len(t) /\ SubSeq(t, 1, Len(pre)) = pre
Contains(t, sub) ==
    \E a \in 1..(Len(t) + 1) :
        a + Len(sub) - 1 <= Len(t) /\ SubSeq(t, a, a + Len(sub) - 1) = sub

\* the loop of lines 70-73: the first column whose normalised name starts with
\* the normalised base and contains "(leg<leg>)"; <<>> when there is none
LegColumn(columns, base, leg) ==
    LET tag  == <<"(", "l", "e", "g">> \o IntText(leg) \o <<")">>
        hits == {i \in 1..Len(columns) :
                    StartsWith(_norm(columns[i]), _norm(base)) /\ Contains(_norm(columns[i]), tag)}
    IN  IF hits = {} THEN <<>>
        ELSE columns[CHOOSE i \in hits : \A j \in hits : i <= j]

\* branches 1 and 2 of _value_from_source_spec: by letter, by name
ByLetterOrName(row, orders_by_file, df, spec) ==
    IF spec.source_letter # <<>>
    THEN LET letter     == Upper(spec.source_letter)
             letter_map == IF row.file \in DOMAIN orders_by_file
                           THEN orders_by_file[row.file] ELSE <<>>
             colname    == IF letter \in DOMAIN letter_map THEN letter_map[letter] ELSE <<>>
         IN  IF colname # <<>> THEN RowGet(df, row, colname) ELSE PyNone
    ELSE LET col == get_col(df.columns, spec.source)
         IN  IF col # <<>> THEN RowGet(df, row, col) ELSE PyNone

\* a variant of _value_from_source_spec whose leg lookup has no fallback
_value_from_source_spec_NoFallback(row, orders_by_file, df, spec) ==
    IF spec.source_letter # <<>> \/ spec.source # <<>>
    THEN ByLetterOrName(row, orders_by_file, df, spec)
    ELSE IF ~spec.source_leg.present THEN PyNone
    ELSE IF ~spec.source_leg.dict THEN Raised
    ELSE LET Leg(c) == IF c # <<>> THEN RowGet(df, row, c) ELSE PyNone
         IN  Leg(LegColumn(df.columns, spec.source_leg.base, spec.source_leg.leg))

\* yaml_apply._value_from_source_spec.  source_leg.present: the spec has the
\* key; source_leg.dict: its value is a mapping (None.get raises otherwise)
_value_from_source_spec(row, orders_by_file, df, spec) ==
    IF spec.source_letter # <<>> \/ spec.source # <<>>
    THEN ByLetterOrName(row, orders_by_file, df, spec)
    ELSE IF ~spec.source_leg.present THEN PyNone
    ELSE IF ~spec.source_leg.dict THEN Raised
    ELSE LET Bare(col) == IF col # <<>> THEN RowGet(df, row, col) ELSE PyNone
             Leg(c) == IF c # <<>> THEN RowGet(df, row, c)
                       ELSE Bare(get_col(df.columns, spec.source_leg.base))
         IN  Leg(LegColumn(df.columns, spec.source_leg.base, spec.source_leg.leg))

CodeColumnName == <<"C", "u", "s", "t", "o", "m", " ", "A", "t", "t", "r", "i", "b", "u", "t", "e", "5", " ", "V", "a", "l", "u", "e">>

\* a variant of the row filter that also drops a row equal to an earlier one
InScopeRows_Dedup(df) ==
    LET c_code == get_col(df.columns, CodeColumnName)
        Kept == {i \in 1..Len(df.rows) :
                    /\ c_code = <<>> \/ valid_code_mask(RowGet(df, df.rows[i], c_code))
                    /\ \A j \in 1..(i - 1) : df.rows[j] # df.rows[i]}
    IN  [k \in 1..Cardinality(Kept) |->
            df.rows[CHOOSE i \in Kept : Cardinality({j \in Kept : j < i}) = k - 1]]

\* the rows kept by "data = data[valid_code_mask(data[c_code])]" (all rows when
\* the table has no code column), in input order
InScopeRows(df) ==
    LET c_code == get_col(df.columns, CodeColumnName)
    IN  IF c_code = <<>> THEN df.rows
        ELSE SelectSeq(df.rows, LAMBDA row : valid_code_mask(RowGet(df, row, c_code)))

----------------------------------------------------------------------------
(* Template, target index, writes                                           *)

NCols == 4            \* ws.max_column of the template
MaxRows == 2          \* most rows of the source table
DefaultHeaderRow == 6

\* openpyxl.utils.cell.column_index_from_string, letters A..Z, any case
RECURSIVE column_index_from_string(_)
column_index_from_string(letters) ==
    IF letters = <<>> THEN 0
    ELSE 26 * column_index_from_string(SubSeq(letters, 1, Len(letters) - 1))
         + (CHOOSE i \in 1..26 : UpperChars[i] = UpperChar(letters[Len(letters)]))

\* a variant of IndexColumns that lists the columns right to left
IndexColumns_Reversed(sheet, header_row, lab) ==
    LET Cols(S) == [i \in 1..Cardinality(S) |->
                      CHOOSE c \in S : Cardinality({c2 \in S : c2 > c}) = i - 1]
    IN  Cols({c \in 1..NCols : /\ sheet[header_row][c] # PyNone
                                /\ _norm(StrOf(sheet[header_row][c])) = lab})

\* template_write.build_targets_index, read at one label: the columns of the
\* header row whose normalised text is lab, left to right
IndexColumns(sheet, header_row, lab) ==
    SelectSeq([c \in 1..NCols |-> c],
              LAMBDA c : /\ sheet[header_row][c] # PyNone
                         /\ _norm(StrOf(sheet[header_row][c])) = lab)

\* template_write.build_targets_index
build_targets_index(sheet, header_row) ==
    [lab \in { _norm(StrOf(sheet[header_row][c])) :
                 c \in {c \in 1..NCols : sheet[header_row][c] # PyNone} }
        |-> IndexColumns(sheet, header_row, lab)]

\* a variant of TargetColumn that clamps the occurrence into the range
TargetColumn_Clamped(item, tindex) ==
    IF item.target_letter # <<>> THEN column_index_from_string(item.target_letter)
    ELSE IF item.target # <<>> /\ _norm(item.target) \in DOMAIN tindex
    THEN LET Clamp(occ, col_list) ==
                 IF occ < 1 THEN col_list[1]
                 ELSE IF occ > Len(col_list) THEN col_list[Len(col_list)]
                 ELSE col_list[occ]
         IN  Clamp(item.target_occurrence, tindex[_norm(item.target)])
    ELSE 0

\* the column an item addresses, 0 (cidx = None) when it addresses none
TargetColumn(item, tindex) ==
    IF item.target_letter # <<>> THEN column_index_from_string(item.target_letter)
    ELSE IF item.target # <<>>
    THEN LET lab      == _norm(item.target)
             occ      == item.target_occurrence
             col_list == IF lab \in DOMAIN tindex THEN tindex[lab] ELSE <<>>
         IN  IF 1 <= occ /\ occ <= Len(col_list) THEN col_list[occ] ELSE 0
    ELSE 0

\* openpyxl's Cell.value setter raises ValueError for a tuple or a function
CanStore(v) == v.k \notin {"tuple", "func"}

\* the value an item puts in its cell
ItemValue(item, row, en, orders_by_file, df, textparses) ==
    _cast_for_target(item.target,
                     IF item.kind = "direct"
                     THEN _value_from_source_spec(row, orders_by_file, df, item)
                     ELSE _eval_expr(item.expr, en),
                     textparses)

\* the loops (a) and (c) over the items of one row, in order; st.ok turns
\* FALSE at the first cell assignment that raises, and the rest is not run
RECURSIVE WriteItems(_, _, _, _, _, _, _, _, _)
WriteItems(items, st, r, row, en, tindex, orders_by_file, df, textparses) ==
    IF items = <<>> \/ ~st.ok THEN st
    ELSE LET Store(cidx, v) ==      \* ws.cell(row=r, column=cidx).value = v
                 IF cidx = 0 THEN st
                 ELSE IF CanStore(v) THEN [st EXCEPT !.sheet[r][cidx] = v]
                 ELSE [st EXCEPT !.ok = FALSE]
         IN  WriteItems(Tail(items),
                        Store(TargetColumn(Head(items), tindex),
                              ItemValue(Head(items), row, en, orders_by_file, df,
                                        textparses)),
                        r, row, en, tindex, orders_by_file, df, textparses)

----------------------------------------------------------------------------
(* Specification SpecIntegrate: one run of integrate_yaml_to_template       *)

NRows == DefaultHeaderRow + MaxRows + 1

OldCell == PyStr(<<"o", "l", "d">>)      \* what the template holds outside its header row

\* header rows of the template
Headers == {
    <<PyStr(<<"C", "o", "d", "e">>), PyStr(<<"P", "r", "i", "c", "e">>), PyStr(<<"P", "r", "i", "c", "e">>), PyStr(<<"P", "r", "i", "c", "e">>)>>,
    <<PyStr(<<"nbsp", "c", "o", "d", "e", "nbsp">>), PyNone, PyStr(<<"P", "R", "I", "C", "E">>), PyStr(<<"S", "t", "a", "r", "t", "nbsp", "nbsp", "D", "a", "t", "e">>)>> }

TemplateSheet(header, header_row) ==
    [r \in 1..NRows |-> [c \in 1..NCols |->
        IF r = header_row
        THEN (IF c <= Len(header) THEN header[c] ELSE PyNone)
        ELSE OldCell]]

\* the value of the key source_leg: absent, a mapping, present but null
NoLeg == [present |-> FALSE, dict |-> FALSE, base |-> <<>>, leg |-> 1]
LegOf(base, leg) == [present |-> TRUE, dict |-> TRUE, base |-> base, leg |-> leg]
NullLeg == [present |-> TRUE, dict |-> FALSE, base |-> <<>>, leg |-> 1]

NoSource == [source_letter |-> <<>>, source |-> <<>>, source_leg |-> NoLeg]

Direct(target, occ, letter, src) ==
    [kind |-> "direct", target |-> target, target_occurrence |-> occ,
     target_letter |-> letter, source_letter |-> src.source_letter,
     source |-> src.source, source_leg |-> src.source_leg, expr |-> <<>>]

Computed(target, occ, letter, e) ==
    [kind |-> "computed", target |-> target, target_occurrence |-> occ,
     target_letter |-> letter, source_letter |-> <<>>, source |-> <<>>,
     source_leg |-> NoLeg, expr |-> e]

ByLetter(l) == [source_letter |-> l, source |-> <<>>, source_leg |-> NoLeg]
ByName(nm)  == [source_letter |-> <<>>, source |-> nm, source_leg |-> NoLeg]
ByLeg(base, leg) == [source_letter |-> <<>>, source |-> <<>>, source_leg |-> LegOf(base, leg)]

\* the "columns" list of the configurations: the code by column name, a
\* price by spreadsheet letter
ColumnsChoices == {
    << Direct(<<"C", "o", "d", "e">>, 1, <<>>, ByName(<<"C", "u", "s", "t", "o", "m", "nbsp", "A", "t", "t", "r", "i", "b", "u", "t", "e", "5", "nbsp", "V", "a", "l", "u", "e">>)),
       Direct(<<"p", "r", "i", "c", "e">>, 3, <<>>, ByLetter(<<"B">>)) >> }

ComputedExprs == { <<"x", "/", "y">>, <<"x", "+">>, <<"z">>, <<>>, <<"(", ")">> }

\* the "computed" lists: one item by (label, occurrence), then one by letter
ComputedChoices ==
    { << Computed(t[1], t[2], <<>>, t[3]),
         Computed(<<"D", "i", "r", "t", "y", "nbsp", "V", "a", "l", "u", "e", "(", "%", ")">>, 1, <<"b">>, <<"x", "*", "y">>) >> :
        t \in ({ <<"P", "r", "i", "c", "e">> } \X (0..2) \X ComputedExprs)
              \cup { << <<"S", "t", "a", "r", "t", "nbsp", "D", "a", "t", "e">>, 1, <<"x", "/", "y">> >> } }

\* variables: x by spreadsheet letter, y by name
Variables == [x |-> ByLetter(<<"b">>), y |-> ByName(<<"nbsp", "y", "nbsp">>)]

\* columns of the source table, with and without the code column
ColumnsOfSource == {
    << <<"c", "u", "s", "t", "o", "m", "nbsp", "nbsp", "a", "t", "t", "r", "i", "b", "u", "t", "e", "5", "nbsp", "V", "A", "L", "U", "E">>, <<"X">>, <<"Y">> >>,
    << <<"C", "o", "d", "e", "nbsp", "D", "I">>, <<"X">>, <<"Y">> >> }

\* rows of the source table: code, X, Y; the rows of a table are different
RowKinds == {
    <<PyStr(<<"A", "B", "1", "2">>), Num(120, 1), Num(2, 1)>>,
    <<PyNaN, Num(10, 1), Num(5, 1)>>,
    <<PyStr(<<"nbsp", "n", "/", "A">>), Num(10, 1), Num(5, 1)>>,
    <<PyStr(<<"C", "D", "3", "4">>), Num(120, 1), Num(0, 1)>>,
    <<PyStr(<<"E", "F", "5", "6">>), PyNaN, Num(2, 1)>>,
    <<PyStr(<<"G", "H", "7", "8">>), PyStr(<<"1", ",", "5">>), Num(5, 1)>> }

\* the row of a trade that the source table holds more than once
RepeatedRow == <<PyStr(<<"A", "B", "1", "2">>), Num(120, 1), Num(2, 1)>>

\* the letter map of a file read without dropped columns: A, B, C ...
LetterMapOf(columns) ==
    [l \in { <<UpperChars[i]>> : i \in 1..Len(columns) } |->
        columns[CHOOSE i \in 1..Len(columns) : <<UpperChars[i]>> = l]]

HeaderRowChoices == {0, 3}     \* cfg["header_row"]; 0: the key is absent

header_row_of(c) == IF c.header_row = 0 THEN DefaultHeaderRow ELSE c.header_row

\* a variant of start_row that leaves one row free below the header
start_row_Gap(c) == header_row_of(c) + 2

\* line 220: start_row = header_row + 1
start_row(c) == header_row_of(c) + 1

\* the sheets of the template workbook, the first one active
T_IFT == <<"I", "F", "T">>
T_Data == <<"D", "a", "t", "a">>
TemplateSheetNames == <<T_IFT>>

\* cfg["sheet"]: the sheet of the template, a name the template does not have
SheetChoices(comp) ==
    IF comp[1].expr = <<"x", "/", "y">> THEN {T_IFT, T_Data} ELSE {T_IFT}

\* name in wb.sheetnames
HasSheet(sheetnames, name) == \E i \in 1..Len(sheetnames) : sheetnames[i] = name

\* line 211: ws = wb[ws_name] if ws_name in wb.sheetnames else wb.active
SheetTaken(w, ws_name) == IF HasSheet(w.sheetnames, ws_name) THEN ws_name ELSE w.active

InitIntegrate ==
    /\ pc = "int_call"
    /\ \E hr \in HeaderRowChoices, cols \in ColumnsChoices, comp \in ComputedChoices :
         \E sheet \in SheetChoices(comp) :
           cfg = [sheet |-> sheet, header_row |-> hr, variables |-> Variables,
                  columns |-> cols, computed |-> comp]
    /\ \E columns \in ColumnsOfSource, k \in 0..MaxRows :
         \E vals \in [1..k -> RowKinds] :
           /\ \/ \A i, j \in 1..k : i < j => vals[i] # vals[j]
              \/ \A i \in 1..k : vals[i] = RepeatedRow
           /\ df_all = [columns |-> columns,
                        rows |-> [i \in 1..k |-> [file |-> "f1", vals |-> vals[i]]],
                        orders_by_file |-> [f \in {"f1"} |-> LetterMapOf(columns)]]
    /\ \E header \in Headers : template = TemplateSheet(header, header_row_of(cfg))
    /\ ws = Idle /\ out_file = Idle /\ targets_index = Idle /\ rwrite = 0
    /\ data = Idle
    /\ expr = Idle /\ env = Idle /\ ret = Unset /\ df0 = Idle /\ hdr = Idle
    /\ wb = [sheetnames |-> TemplateSheetNames, active |-> TemplateSheetNames[1], title |-> <<>>]
    /\ LibIdle

\* a variant of the copy that leaves an empty file
copy_template_to_dest_Empty(template_file) == <<>>

\* template_write.copy_template_to_dest: shutil.copy2(template_path, out_path)
copy_template_to_dest(template_file) == template_file

\* lines 206-228: copy the template, load it, write the date in B3, index the
\* header row, keep the rows of the table with a valid code
IntegrateStart ==
    /\ pc = "int_call"
    /\ out_file' = copy_template_to_dest(template)
    /\ ws' = [template EXCEPT ![3][2] = PyDate(45000, 1)]
    /\ targets_index' = build_targets_index(ws', header_row_of(cfg))
    /\ data' = InScopeRows(df_all)
    /\ rwrite' = 0
    /\ wb' = [wb EXCEPT !.title = SheetTaken(wb, cfg.sheet)]
    /\ pc' = "int_rows"
    /\ UNCHANGED <<expr, env, ret, cfg, df_all, template, df0, hdr, libVars>>

\* a variant of RowEnv that keeps the values of the first row
RowEnv_Stale(row) ==
    [v \in DOMAIN cfg.variables |->
        _parse_number(_value_from_source_spec(data[1],
                                              df_all.orders_by_file, df_all,
                                              cfg.variables[v]))]

\* the environment of one row (b)
RowEnv(row) ==
    [v \in DOMAIN cfg.variables |->
        _parse_number(_value_from_source_spec(row, df_all.orders_by_file, df_all,
                                              cfg.variables[v]))]

\* the sheet after the body of the loop at lines 230-275 for one row
RowResult(row, r, textparses) ==
    WriteItems(cfg.columns \o cfg.computed, [sheet |-> ws, ok |-> TRUE], r, row,
               RowEnv(row), targets_index, df_all.orders_by_file, df_all, textparses)

\* one iteration of "for _, row in data.iterrows()"
IntegrateRow ==
    /\ pc = "int_rows"
    /\ rwrite < Len(data)
    /\ \E textparses \in BOOLEAN :
         \E st \in { RowResult(data[rwrite + 1],
                                start_row(cfg) + rwrite, textparses) } :
             /\ ws' = st.sheet
             /\ \/ st.ok /\ rwrite' = rwrite + 1 /\ pc' = "int_rows"
                \/ ~st.ok /\ rwrite' = rwrite /\ pc' = "int_raised"
    /\ UNCHANGED <<expr, env, ret, cfg, df_all, data, out_file, template, targets_index,
                   df0, hdr, wb, libVars>>

\* line 277: wb.save(out_path)
IntegrateSave ==
    /\ pc = "int_rows"
    /\ rwrite = Len(data)
    /\ out_file' = ws
    /\ pc' = "int_done"
    /\ UNCHANGED <<expr, env, ret, cfg, df_all, data, ws, rwrite, template, targets_index,
                   df0, hdr, wb, libVars>>

NextIntegrate == IntegrateStart \/ IntegrateRow \/ IntegrateSave

SpecIntegrate == InitIntegrate /\ [][NextIntegrate]_vars

----------------------------------------------------------------------------
(* Column Identity Normalizer: excel_read.label_duplicate_columns.  The     *)
(* column names are texts: both readers build them with astype(str) or     *)
(* str(), so isinstance(c, str) holds for every name.                       *)

MaxLabCols == 4        \* most columns of a table given to label_duplicate_columns

\* str.isdigit() for the characters modelled
IsDigits(t) == t # <<>> /\ \A i \in 1..Len(t) : t[i] \in {"0", "1", "2", "3", "4", "5", "6", "7", "8", "9"}

\* position of the last "." of a text, 0 when it has none
LastDot(t) ==
    IF \E i \in 1..Len(t) : t[i] = "."
    THEN CHOOSE i \in 1..Len(t) : t[i] = "." /\ \A j \in (i + 1)..Len(t) : t[j] # "."
    ELSE 0

\* f"{base} (Leg{leg})"
LegName(base, leg) == base \o <<" ", "(", "L", "e", "g">> \o IntText(leg) \o <<")">>

\* the test of the first branch: "." in c and c.split(".")[-1].isdigit()
MangledName(c) == LastDot(c) # 0 /\ IsDigits(SubSeq(c, LastDot(c) + 1, Len(c)))

\* the else branch for a base seen `seen` times before: base_counts[base] += 1,
\* then f"{base} (Leg{base_counts[base]+1})"
CountedName(base, seen) == LegName(base, seen + 1)

\* the loop "for c in cols" from column i on; base_counts holds, for each base
\* met by the else branch, the number of times it was met
RECURSIVE label_from(_, _, _, _)
label_from(names, i, base_counts, out) ==
    IF i > Len(names) THEN out
    ELSE LET c == names[i]
         IN  IF MangledName(c)
             THEN label_from(names, i + 1, base_counts,
                      Append(out, LegName(SubSeq(c, 1, LastDot(c) - 1),
                                          DigitsValue(SubSeq(c, LastDot(c) + 1, Len(c)), 0) + 1)))
             ELSE IF c \in DOMAIN base_counts
             THEN label_from(names, i + 1,
                      [base_counts EXCEPT ![c] = @ + 1],
                      Append(out, CountedName(c, base_counts[c] + 1)))
             ELSE label_from(names, i + 1,
                      [b \in DOMAIN base_counts \cup {c} |->
                           IF b = c THEN 0 ELSE base_counts[b]],
                      Append(out, c))

\* excel_read.label_duplicate_columns: the new column names
label_duplicate_columns(names) == label_from(names, 1, <<>>, <<>>)

(* Specification SpecLabel: one call of label_duplicate_columns             *)

LabelNames == {
    <<"X">>, <<"Y">>, <<>>,
    <<"X", ".", "1">>,
    <<"X", " ", "(", "L", "e", "g", "2", ")">> }

LabelExamples == {
    << <<"X">>, <<"Y">>, <<"X">>, <<"X">> >>,
    << <<"X">>, <<"X">>, <<"X">>, <<"X">>, <<"X">>, <<"X">>, <<"X">>, <<"X">>, <<"X">>, <<"X">>, <<"X">> >>,
    << <<"R", "a", "t", "e", " ", "2", ".", "5">>, <<"X", ".", "1", "0">> >> }

InitLabel ==
    /\ pc = "lab_call"
    /\ \/ \E n \in 0..MaxLabCols : lab_cols \in [1..n -> LabelNames]
       \/ lab_cols \in LabelExamples
    /\ new_cols = Idle
    /\ PerIdle /\ SrcIdle /\ NumIdle /\ CoreIdle /\ ExtIdle

LabelColumns_call ==
    /\ pc = "lab_call"
    /\ new_cols' = label_duplicate_columns(lab_cols)
    /\ pc' = "lab_done"
    /\ UNCHANGED <<lab_cols, perVars, srcVars, numVars, coreVars, extVars>>

NextLabel == LabelColumns_call

SpecLabel == InitLabel /\ [][NextLabel]_vars

(* Claims on label_duplicate_columns, checked under SpecLabel               *)

\* number of the columns 1..i that carry the same label as column i
OccurrenceOf(i) == Cardinality({j \in 1..i : lab_cols[j] = lab_cols[i]})

\* C11: the first occurrence of each column label keeps its name and the k-th
\* occurrence (k >= 2, in order of appearance) is renamed "<label> (Leg<k>)";
\* [X, Y, X, X] gives [X, Y, X (Leg2), X (Leg3)].
C11_DuplicateSuffixing ==
    pc = "lab_done" =>
        /\ Len(new_cols) = Len(lab_cols)
        /\ \A i \in 1..Len(lab_cols) :
               new_cols[i] = (IF OccurrenceOf(i) = 1 THEN lab_cols[i]
                              ELSE LegName(lab_cols[i], OccurrenceOf(i)))

\* C12: the column names returned are pairwise distinct.
C12_NamesUnique ==
    pc = "lab_done" =>
        \A i, j \in 1..Len(new_cols) : i # j => new_cols[i] # new_cols[j]

----------------------------------------------------------------------------
(* Perimeter Filter: data_rules.valid_code_mask on a column and             *)
(* perimeter.build_perimeter.  A table is [columns, rows]: the column names *)
(* and, for each row, its cells in the order of the columns.                *)

MaxCodes == 2          \* most cells of an enumerated code column
MaxPerRows == 2        \* most rows of the first table given to build_perimeter

T_AB12 == <<"A", "B", "1", "2">>
T_CD34 == <<"C", "D", "3", "4">>

\* valid_code_mask on a Series: one boolean per cell
CodeMask(s) == [i \in 1..Len(s) |-> valid_code_mask(s[i])]

(* Specification SpecMask: one call of valid_code_mask                      *)

CodeValues == {
    PyStr(T_AB12), PyStr(T_CD34), PyStr(<<>>), PyStr(<<" ", NBSP>>), PyNaN, PyNone, Num(12, 1),
    PyStr(<<"N", "a", "N">>), PyStr(<<"N", "/", "A">>), PyStr(<<"emdash">>), PyStr(<<"-">>),
    PyStr(<<"n", "o", "n", "e">>), PyStr(<<"N", "U", "L", "L">>), PyStr(<<"n", "a">>),
    PyStr(<<"#", "N", "/", "A">>), PyStr(<<"#", "N", "A">>),
    PyStr(<<NBSP, "n", "/", "a", " ">>),
    PyStr(<<"N", "A", "N", "1">>), PyStr(<<"A", "-", "1">>), PyStr(<<"n", " ", "/", " ", "a">>) }

\* the code column of the sentinel example
CodeExample ==
    << PyStr(T_AB12), PyStr(<<>>), PyStr(<<"N", "a", "N">>), PyStr(<<"N", "/", "A">>),
       PyStr(<<"emdash">>), PyStr(T_CD34) >>

InitMask ==
    /\ pc = "mask_call"
    /\ \/ \E n \in 0..MaxCodes : codes \in [1..n -> CodeValues]
       \/ codes = CodeExample
    /\ mask = Idle /\ frames = Idle /\ result = Idle /\ first = Idle
    /\ LabIdle /\ SrcIdle /\ NumIdle /\ CoreIdle /\ ExtIdle

MaskCodes ==
    /\ pc = "mask_call"
    /\ mask' = CodeMask(codes)
    /\ pc' = "mask_done"
    /\ UNCHANGED <<codes, frames, result, first, labVars, srcVars, numVars, coreVars, extVars>>

NextMask == MaskCodes

SpecMask == InitMask /\ [][NextMask]_vars

(* perimeter.build_perimeter                                                *)

T_Class == <<"C", "l", "a", "s", "s">>
T_CodeDI == <<"C", "o", "d", "e", " ", "D", "I">>
T_ClassifDI == <<"C", "l", "a", "s", "s", "i", "f", " ", "D", "I">>
T_Ticket == <<"#", "T", "i", "c", "k", "e", "t">>
T_TradeID == <<"T", "r", "a", "d", "e", " ", "I", "D">>
T_ExternalId == <<"E", "x", "t", "e", "r", "n", "a", "l", " ", "I", "d">>
T_Counterparty == <<"C", "o", "u", "n", "t", "e", "r", "p", "a", "r", "t", "y">>
T_Currency == <<"C", "u", "r", "r", "e", "n", "c", "y">>

\* the columns of pd.concat(frames, sort=False): every name, in order of first
\* appearance
RECURSIVE ConcatColumns(_, _)
ConcatColumns(fs, acc) ==
    IF fs = <<>> THEN acc
    ELSE ConcatColumns(Tail(fs),
             acc \o SelectSeq(Head(fs).columns,
                              LAMBDA c : \A i \in 1..Len(acc) : acc[i] # c))

\* the rows of pd.concat(frames): each row laid out on the union of the
\* columns, NaN where its table has no such column
RECURSIVE ConcatRows(_, _)
ConcatRows(fs, columns) ==
    IF fs = <<>> THEN <<>>
    ELSE LET f == Head(fs)
             Cell(row, c) == IF ColumnIndex(f.columns, c) = 0 THEN PyNaN
                             ELSE row[ColumnIndex(f.columns, c)]
         IN  [i \in 1..Len(f.rows) |->
                 [j \in 1..Len(columns) |-> Cell(f.rows[i], columns[j])]]
             \o ConcatRows(Tail(fs), columns)

\* raw = pd.concat(frames, ignore_index=True, sort=False)
concat(fs) ==
    [columns |-> ConcatColumns(fs, <<>>),
     rows    |-> ConcatRows(fs, ConcatColumns(fs, <<>>))]

\* raw[c] at the 0-based row label i
At(raw, i, c) == raw.rows[i + 1][ColumnIndex(raw.columns, c)]

\* the identifier columns found, in the priority of the list
id_cols_of(raw) ==
    SelectSeq(<<get_col(raw.columns, T_Ticket), get_col(raw.columns, T_TradeID),
                get_col(raw.columns, T_ExternalId)>>, LAMBDA c : c # <<>>)

\* keep_meta: the identifier columns, then Counterparty and Currency if found
keep_meta_of(raw) ==
    id_cols_of(raw)
    \o SelectSeq(<<get_col(raw.columns, T_Counterparty), get_col(raw.columns, T_Currency)>>,
                 LAMBDA c : c # <<>>)

\* the row labels (0-based) of the sequence of labels idx kept by
\* drop_duplicates(subset=id_cols): the last of two equal tuples, a variant
drop_duplicates_KeepLast(raw, idx, id_cols) ==
    SelectSeq(idx, LAMBDA i :
        ~\E k \in 1..Len(idx) :
            /\ idx[k] > i
            /\ \A c \in 1..Len(id_cols) : At(raw, idx[k], id_cols[c]) = At(raw, i, id_cols[c]))

\* drop_duplicates(subset=id_cols) keeps the first row of each identifier tuple
drop_duplicates(raw, idx, id_cols) ==
    SelectSeq(idx, LAMBDA i :
        ~\E k \in 1..Len(idx) :
            /\ idx[k] < i
            /\ \A c \in 1..Len(id_cols) : At(raw, idx[k], id_cols[c]) = At(raw, i, id_cols[c]))

\* get_col(raw, name) with required=True raises KeyError when nothing matches
KeyError(name) ==
    [raised |-> "KeyError", missing |-> name, columns |-> <<>>, index |-> <<>>,
     rows |-> <<>>, meta |-> <<>>]

\* a variant of the lookup of the two required columns that takes the code
\* column only under its exact name
RequiredMissing_ExactName(raw) ==
    IF ColumnIndex(raw.columns, CodeColumnName) = 0 THEN CodeColumnName
    ELSE IF get_col(raw.columns, T_Class) = <<>> THEN T_Class
    ELSE <<>>

\* lines 14-15: the first required column that get_col does not find
RequiredMissing(raw) ==
    IF get_col(raw.columns, CodeColumnName) = <<>> THEN CodeColumnName
    ELSE IF get_col(raw.columns, T_Class) = <<>> THEN T_Class
    ELSE <<>>

\* lines 25-57 of build_perimeter, once both required columns are found
Perimeter(raw) ==
    LET col_code_di == get_col(raw.columns, CodeColumnName)
        col_class   == get_col(raw.columns, T_Class)
        id_cols     == id_cols_of(raw)
        keep_meta   == keep_meta_of(raw)
        peri  == SelectSeq([i \in 1..Len(raw.rows) |-> i - 1],
                           LAMBDA i : valid_code_mask(At(raw, i, col_code_di)))
        kept  == IF id_cols # <<>> THEN drop_duplicates(raw, peri, id_cols) ELSE peri
        Row(i) == << PyStr(Strip(Strip(StrOf(At(raw, i, col_code_di))))),
                     At(raw, i, col_class), At(raw, i, col_class) >>
                  \o [c \in 1..Len(keep_meta) |-> At(raw, i, keep_meta[c])]
    IN  [raised  |-> "",
         missing |-> <<>>,
         columns |-> <<T_CodeDI, T_ClassifDI, T_Class>> \o keep_meta,
         index   |-> kept,
         rows    |-> [k \in 1..Len(kept) |-> Row(kept[k])],
         meta    |-> [dedup_keys |-> id_cols, dedup_before |-> Len(peri),
                      dedup_after |-> Len(kept)]]

\* perimeter.build_perimeter: (result, meta), or the exception raised
build_perimeter(fs) ==
    IF fs = <<>>
    THEN [KeyError(<<>>) EXCEPT !.raised = "ValueError"]   \* pd.concat of no table
    ELSE LET Run(raw) == IF RequiredMissing(raw) # <<>>
                          THEN KeyError(RequiredMissing(raw)) ELSE Perimeter(raw)
         IN  Run(concat(fs))

(* Specification SpecPerimeter: build_perimeter on bounded tables, then     *)
(* once more on the table it returned                                       *)

PerCodes == {PyStr(T_AB12), PyStr(<<"N", "/", "A">>), PyNaN}
PerIds   == {PyStr(<<"T", "1">>), PyStr(<<"T", "2">>), PyNaN}
PerClass == PyStr(<<"I", "R", "S">>)

\* the kinds of table: the columns and, for a code and an identifier, the row
PerKinds == {
    [columns |-> <<CodeColumnName, T_Class, T_TradeID>>, code |-> 1, id |-> 3],
    [columns |-> <<T_Class, T_TradeID, <<"c", "u", "s", "t", "o", "m", NBSP, NBSP, "a", "t", "t", "r", "i", "b", "u", "t", "e", "5", NBSP, "V", "A", "L", "U", "E">>, T_Currency>>,
     code |-> 3, id |-> 2],
    [columns |-> <<CodeColumnName, T_Class, T_Ticket, T_ExternalId>>, code |-> 1, id |-> 4],
    [columns |-> <<CodeColumnName, T_Class>>, code |-> 1, id |-> 0],
    [columns |-> <<CodeColumnName, T_TradeID>>, code |-> 1, id |-> 2],
    [columns |-> <<T_Class, T_TradeID>>, code |-> 0, id |-> 2] }

PerRow(kind, code, id) ==
    [j \in 1..Len(kind.columns) |->
        IF j = kind.code THEN code
        ELSE IF j = kind.id THEN id
        ELSE IF kind.columns[j] = T_Ticket THEN PyStr(<<"K">>)
        ELSE PerClass]

\* a second table for the concatenation: none, or one row of another layout
SecondFrames == {
    <<>>,
    << [columns |-> <<T_TradeID, CodeColumnName, T_Class>>,
        rows |-> << <<PyStr(<<"T", "1">>), PyStr(T_CD34), PerClass>> >>] >>,
    << [columns |-> <<T_Class, T_Counterparty>>,
        rows |-> << <<PerClass, PyStr(<<"B", "K">>)>> >>] >> }

InitPerimeter ==
    /\ pc = "per_call"
    /\ \/ frames = <<>>
       \/ \E kind \in PerKinds, n \in 0..MaxPerRows, second \in SecondFrames :
            \E cs \in [1..n -> PerCodes], is \in [1..n -> PerIds] :
              frames = << [columns |-> kind.columns,
                           rows |-> [i \in 1..n |-> PerRow(kind, cs[i], is[i])]] >>
                       \o second
    /\ result = Idle /\ first = Idle /\ codes = Idle /\ mask = Idle
    /\ LabIdle /\ SrcIdle /\ NumIdle /\ CoreIdle /\ ExtIdle

run_build_perimeter ==
    /\ pc = "per_call"
    /\ result' = build_perimeter(frames)
    /\ pc' = "per_done"
    /\ UNCHANGED <<codes, mask, frames, first, labVars, srcVars, numVars, coreVars, extVars>>

\* the caller hands the table returned back to build_perimeter
feed_back ==
    /\ pc = "per_done"
    /\ first = Idle
    /\ result.raised = ""
    /\ first' = result
    /\ frames' = << [columns |-> result.columns, rows |-> result.rows] >>
    /\ pc' = "per_call"
    /\ UNCHANGED <<codes, mask, result, labVars, srcVars, numVars, coreVars, extVars>>

NextPerimeter == run_build_perimeter \/ feed_back

SpecPerimeter == InitPerimeter /\ [][NextPerimeter]_vars

(* Claims on valid_code_mask, checked under SpecMask                        *)

\* the sentinels as the claim lists them
ListedSentinels == {
    <<"n", "a", "n">>, <<"n", "o", "n", "e">>, <<"n", "u", "l", "l">>, <<"n", "a">>,
    <<"n", "/", "a">>, <<"#", "n", "/", "a">>, <<"-">>, <<"emdash">> }

Present(v) == v.k \notin {"nan", "none"}
Trimmed(v) == Strip(StrOf(v))

\* the cell is in scope when its whole trimmed text is none of the sentinels S
InScopeFor(v, S) == Present(v) /\ Trimmed(v) # <<>> /\ Lower(Trimmed(v)) \notin S

\* C13 as stated: a cell is in scope iff it is present, its trimmed text is not
\* empty and is not, whatever the case, one of nan, none, null, na, n/a, #n/a,
\* -, em-dash.
C13_ListedSentinelsOnly ==
    pc = "mask_done" =>
        /\ Len(mask) = Len(codes)
        /\ \A i \in 1..Len(codes) : mask[i] <=> InScopeFor(codes[i], ListedSentinels)

\* C13: a cell is in scope iff it is present, its trimmed text is not empty and
\* is not, whatever the case, one of nan, none, null, na, n/a, #na, #n/a, -,
\* em-dash; the match is on the whole text; the column [AB12, empty, NaN, N/A,
\* em-dash, CD34] gives [True, False, False, False, False, True].
C13_SentinelExclusion ==
    pc = "mask_done" =>
        /\ Len(mask) = Len(codes)
        /\ \A i \in 1..Len(codes) :
               mask[i] <=> InScopeFor(codes[i], ListedSentinels \cup {<<"#", "n", "a">>})
        /\ codes = CodeExample => mask = <<TRUE, FALSE, FALSE, FALSE, FALSE, TRUE>>

C13_Witness ==
    /\ pc = "mask_done"
    /\ codes = CodeExample
    /\ mask = <<TRUE, FALSE, FALSE, FALSE, FALSE, TRUE>>

(* Claims on build_perimeter, checked under SpecPerimeter                   *)

FirstRun == pc = "per_done" /\ first = Idle
Returned == pc = "per_done" /\ result.raised = ""

\* some column of some table given has that name, case and spaces apart
Located(name) ==
    \E k \in 1..Len(frames) : \E c \in 1..Len(frames[k].columns) :
        _norm(frames[k].columns[c]) = _norm(name)

\* the cell of the code column at the 0-based row label i of the concatenated
\* input, and the labels of the rows in scope
RawCode(raw, i) == At(raw, i, get_col(raw.columns, CodeColumnName))
ScopeLabels(raw) == {i \in 0..(Len(raw.rows) - 1) : valid_code_mask(RawCode(raw, i))}

\* the identifier tuple of a row, and the first in-scope row of each tuple
IdTuple(raw, keys, i) == [c \in 1..Len(keys) |-> At(raw, i, keys[c])]
FirstLabels(raw, keys, scope) ==
    {i \in scope : \A j \in scope : j < i => IdTuple(raw, keys, j) # IdTuple(raw, keys, i)}

IdentifierNames == {T_Ticket, T_TradeID, T_ExternalId}

\* C14: with identifier fields present, the result holds exactly the first
\* in-scope row of each distinct identifier tuple, in input order, and meta
\* gives the identifier fields used and the row counts before and after the
\* deduplication, dedup_after <= dedup_before.
C14_DedupKeepsFirst ==
    (Returned /\ \E n \in IdentifierNames : Located(n)) =>
        LET raw   == concat(frames)
            keys  == result.meta.dedup_keys
            scope == ScopeLabels(raw)
        IN  /\ Len(keys) = Cardinality({n \in IdentifierNames : Located(n)})
            /\ \A c \in 1..Len(keys) :
                   /\ ColumnIndex(raw.columns, keys[c]) # 0
                   /\ \E n \in IdentifierNames : _norm(keys[c]) = _norm(n)
            /\ {result.index[k] : k \in 1..Len(result.index)} = FirstLabels(raw, keys, scope)
            /\ \A k \in 1..(Len(result.index) - 1) : result.index[k] < result.index[k + 1]
            /\ Len(result.rows) = Len(result.index)
            /\ \A k \in 1..Len(result.rows) :
                   /\ result.rows[k][1] = PyStr(Trimmed(RawCode(raw, result.index[k])))
                   /\ \A c \in 1..Len(keys) :
                          result.rows[k][3 + c] = At(raw, result.index[k], keys[c])
            /\ result.meta.dedup_before = Cardinality(scope)
            /\ result.meta.dedup_after = Len(result.rows)
            /\ result.meta.dedup_after <= result.meta.dedup_before

C14_Witness ==
    /\ FirstRun /\ Returned
    /\ Len(frames) = 2
    /\ result.meta.dedup_keys = <<T_TradeID>>
    /\ result.meta.dedup_before = 3 /\ result.meta.dedup_after = 2
    /\ result.index = <<0, 1>>

\* C15: build_perimeter run on the table it returned succeeds and returns the
\* same number of rows with the same content.
C15_DedupIdempotent ==
    (pc = "per_done" /\ first # Idle) =>
        /\ result.raised = ""
        /\ Len(result.rows) = Len(first.rows)
        /\ result.columns = first.columns
        /\ result.rows = first.rows

\* C16 as stated: build_perimeter raises the column-missing error exactly when
\* no table given has the code column.
C16_FailsOnlyWithoutCode ==
    (pc = "per_done" /\ frames # <<>>) =>
        (result.raised = "KeyError" <=> ~Located(CodeColumnName))

\* C16: build_perimeter raises the column-missing error (a KeyError naming the
\* column searched, nothing returned) exactly when no table given has the code
\* column (Custom Attribute5 Value) or none has the Class column, names
\* compared case and spaces apart.
C16_FailsWithoutCodeOrClass ==
    (pc = "per_done" /\ frames # <<>>) =>
        /\ result.raised = "KeyError" <=> (~Located(CodeColumnName) \/ ~Located(T_Class))
        /\ ~Located(CodeColumnName) => result.missing = CodeColumnName
        /\ result.raised = "KeyError" =>
               result.columns = <<>> /\ result.rows = <<>> /\ result.meta = <<>>

C16_Witness ==
    /\ FirstRun
    /\ Len(frames) = 2
    /\ ~Located(CodeColumnName) /\ Located(T_Class)
    /\ result.raised = "KeyError" /\ result.missing = CodeColumnName
    /\ result.rows = <<>>

----------------------------------------------------------------------------
(* Specification SpecSource: one call of _value_from_source_spec on the     *)
(* single row of a table                                                    *)

T_Notional == <<"N", "o", "t", "i", "o", "n", "a", "l">>
T_NotionalLeg2 == <<"N", "o", "t", "i", "o", "n", "a", "l", " ", "(", "L", "e", "g", "2", ")">>
T_Gone == <<"G", "o", "n", "e">>

SrcColumns == {
    << T_Notional, T_NotionalLeg2, <<" ", "t", "r", "a", "d", "e", " ", " ", "I", "D", NBSP>> >>,
    << T_NotionalLeg2, <<"X">>, <<"n", "o", "t", "i", "o", "n", "a", "l", " ", "(", "l", "e", "g", "2", ")">> >>,
    << <<"X">>, <<"Y">>, <<"n", "o", "t", "i", "o", "n", "a", "l">> >> }

\* the cells of the row: a different number in each column, or a missing first
SrcCells == { <<Num(10, 1), Num(20, 1), Num(30, 1)>>, <<PyNaN, Num(20, 1), Num(30, 1)>> }

\* letter maps of the file f1: A and C to the first two columns, B to a
\* column that the table does not have; or no letter at all
SrcLetterMaps(columns) == {
    (<<"A">> :> columns[1]) @@ (<<"B">> :> T_Gone) @@ (<<"C">> :> columns[2]),
    <<>> }

SrcSpecs ==
    { ByLetter(l) : l \in { <<"a">>, <<"B">>, <<"c">>, <<"Z">> } }
    \cup { ByName(n) : n \in { <<"n", "o", "t", "i", "o", "n", "a", "l">>,
                               <<NBSP, "T", "R", "A", "D", "E", " ", "i", "d">>,
                               <<"n", "o", "p", "e">>, <<"X">> } }
    \cup { ByLeg(b, k) : b \in { T_Notional, <<"T", "r", "a", "d", "e", " ", "I", "D">>, <<"Z">> },
                         k \in 1..3 }
    \cup { NoSource, [NoSource EXCEPT !.source_leg = NullLeg],
           [ByLetter(<<"Z">>) EXCEPT !.source = <<"X">>] }

InitSource ==
    /\ pc = "src_call"
    /\ \E columns \in SrcColumns, file \in {"f1", "f9"}, vals \in SrcCells :
         \E lm \in SrcLetterMaps(columns) :
           df_all = [columns |-> columns,
                     rows |-> << [file |-> file, vals |-> vals] >>,
                     orders_by_file |-> [f \in {"f1"} |-> lm]]
    /\ vspec \in SrcSpecs
    /\ sval = Unset
    /\ cfg = Idle /\ data = Idle /\ ws = Idle /\ rwrite = 0 /\ out_file = Idle
    /\ template = Idle /\ targets_index = Idle /\ wb = Idle
    /\ EvalIdle /\ HdrIdle /\ LabIdle /\ PerIdle /\ NumIdle /\ ExtIdle

value_from_source_spec ==
    /\ pc = "src_call"
    /\ sval' = _value_from_source_spec(df_all.rows[1], df_all.orders_by_file, df_all, vspec)
    /\ pc' = "src_done"
    /\ UNCHANGED <<vspec, labVars, perVars, numVars, coreVars, extVars>>

NextSource == value_from_source_spec

SpecSource == InitSource /\ [][NextSource]_vars

(* Claims on _value_from_source_spec, checked under SpecSource              *)

\* the row's cell of the first column in the set of positions S
FirstCell(S) == df_all.rows[1].vals[CHOOSE i \in S : \A j \in S : i <= j]

\* columns of the exact name, of the same name case and spaces apart, and of
\* the leg: normalised name starts with the base and contains "(leg<k>)"
ExactColumns(name) == {i \in 1..Len(df_all.columns) : df_all.columns[i] = name}
NamedColumns(name) == {i \in 1..Len(df_all.columns) : NormOf(df_all.columns[i]) = NormOf(name)}
LegColumns(base, k) ==
    {i \in 1..Len(df_all.columns) :
        /\ StartsWith(NormOf(df_all.columns[i]), NormOf(base))
        /\ Contains(NormOf(df_all.columns[i]), <<"(", "l", "e", "g">> \o IntText(k) \o <<")">>)}

\* the letter map of the row's origin file has the letter of the spec
LetterKnown ==
    /\ df_all.rows[1].file \in DOMAIN df_all.orders_by_file
    /\ Upper(vspec.source_letter) \in DOMAIN df_all.orders_by_file[df_all.rows[1].file]
LetterColumn == df_all.orders_by_file[df_all.rows[1].file][Upper(vspec.source_letter)]

IsByLetter == vspec.source_letter # <<>>
IsByName == vspec.source_letter = <<>> /\ vspec.source # <<>>
IsByLeg == vspec.source_letter = <<>> /\ vspec.source = <<>> /\ vspec.source_leg.dict

\* C18: _value_from_source_spec raises nothing and returns null when the letter
\* is not in the letter map of the row's file, when the mapped or named column
\* is not in the table, and when neither a leg column nor the bare base column
\* matches; otherwise it returns the row's cell of the column found: by name
\* whatever the case and the spaces, by leg the leg column first and the bare
\* base column when there is no leg column.
C18_MissingSourceIsNull ==
    (pc = "src_done" /\ ~(vspec.source_leg.present /\ ~vspec.source_leg.dict)) =>
        /\ sval # Raised
        /\ IsByLetter =>
               /\ ~LetterKnown => sval = PyNone
               /\ (LetterKnown /\ ExactColumns(LetterColumn) = {}) => sval = PyNone
               /\ (LetterKnown /\ ExactColumns(LetterColumn) # {}) =>
                      sval = FirstCell(ExactColumns(LetterColumn))
        /\ IsByName =>
               /\ NamedColumns(vspec.source) = {} => sval = PyNone
               /\ NamedColumns(vspec.source) # {} => sval = FirstCell(NamedColumns(vspec.source))
        /\ IsByLeg =>
               LET legs == LegColumns(vspec.source_leg.base, vspec.source_leg.leg)
                   bare == NamedColumns(vspec.source_leg.base)
               IN  /\ (legs = {} /\ bare = {}) => sval = PyNone
                   /\ (legs = {} /\ bare # {}) => sval = FirstCell(bare)
                   /\ legs # {} => sval = FirstCell(legs)

C18_Witness ==
    /\ pc = "src_done"
    /\ IsByLeg /\ vspec.source_leg.leg = 3
    /\ LegColumns(vspec.source_leg.base, 3) = {}
    /\ NamedColumns(vspec.source_leg.base) = {3}
    /\ sval = Num(30, 1)

----------------------------------------------------------------------------
(* Numeric coercers: yaml_apply._parse_number (variables, numeric targets)  *)
(* and collateral_compare._to_float (reconciler)                            *)

MaxTextLen == 4        \* longest enumerated text given to the coercers

CountChar(t, c) == Cardinality({i \in 1..Len(t) : t[i] = c})

\* collateral_compare._to_float
_to_float(value) ==
    IF value.k = "none" THEN PyNone
    ELSE IF IsFloatLike(value) THEN ToFloat(value)
    ELSE IF value.k = "str"
         THEN LET NoneIfRaised(f) == IF f.k = "exc" THEN PyNone ELSE f
                  OfCleaned(cleaned) ==
                      IF cleaned = <<>> THEN PyNone
                      ELSE IF CountChar(cleaned, ",") = 1 /\ CountChar(cleaned, ".") = 0
                      THEN NoneIfRaised(FloatOfText(ReplaceChar(cleaned, ",", ".")))
                      ELSE NoneIfRaised(FloatOfText(RemoveChars(cleaned, {","})))
              IN  OfCleaned(Strip(RemoveChars(value.s, {NBSP, " "})))
    ELSE PyNone

(* Specification SpecCoerce: both coercers applied to one value             *)

TextChars == {"1", "5", ",", ".", " ", "-", "'", "a"}

TextExamples == {
    <<"1", ",", "2", "3", "4", ",", "5", "6", "7">>,
    <<"1", ",", "2", "3", "4", ".", "5">>,
    <<NBSP, "1", NBSP, "2", "3", "4", ",", "5", " ">>,
    <<"1", "2", "3", "4", ".", "5">> }

InitCoerce ==
    /\ pc = "num_call"
    /\ \/ \E n \in 0..MaxTextLen : \E t \in [1..n -> TextChars] : text = PyStr(t)
       \/ \E t \in TextExamples : text = PyStr(t)
       \/ text \in {PyNone, PyNaN, Num(3, 2), PyInt(7), PyBool(TRUE)}
    /\ parsed = Unset /\ floated = Unset
    /\ LabIdle /\ PerIdle /\ SrcIdle /\ CoreIdle /\ ExtIdle

parse_number ==
    /\ pc = "num_call"
    /\ parsed = Unset
    /\ parsed' = _parse_number(text)
    /\ UNCHANGED <<pc, text, floated, labVars, perVars, srcVars, coreVars, extVars>>

to_float ==
    /\ pc = "num_call"
    /\ floated = Unset
    /\ floated' = _to_float(text)
    /\ UNCHANGED <<pc, text, parsed, labVars, perVars, srcVars, coreVars, extVars>>

NextCoerce == parse_number \/ to_float

SpecCoerce == InitCoerce /\ [][NextCoerce]_vars

(* Claims on the coercers, checked under SpecCoerce                         *)

\* C19: for every text, _parse_number and _to_float return the same value (one
\* rule: spaces stripped, a single comma without a dot is the decimal
\* separator, other commas are thousands separators, unparsable gives null).
C19_CoercersAgree ==
    (text.k = "str" /\ parsed # Unset /\ floated # Unset) => parsed = floated

----------------------------------------------------------------------------
(* Header row of a raw grid: excel_read.read_xls_smart and                  *)
(* excel_read.read_xls_with_positions                                       *)

search_rows == 12          \* default of both readers
hdr_idx == 5               \* the fixed header row of the fallback branch

MaxGridLen == 14           \* most rows of a raw grid

EXPECTED_HEADERS == { _norm(x) : x \in ExpectedHeaderTexts }

Min(a, b) == IF a < b THEN a ELSE b
Max(a, b) == IF a < b THEN b ELSE a

\* df.iloc[ridx] for a 0-based ridx
ILoc(df, ridx) == df[ridx + 1]

\* excel_read._score_header_row
_score_header_row(df_nohdr, ridx) ==
    Cardinality({c \in 1..Len(ILoc(df_nohdr, ridx)) :
                     _norm(StrOf(ILoc(df_nohdr, ridx)[c])) \in EXPECTED_HEADERS})

\* a variant of top that scans the whole grid
top_WholeGrid(df, n) == Len(df)

\* top = min(search_rows, len(df0))
top(df, n) == Min(n, Len(df))

\* the loop "for r in range(top)": best = (score, row) after the rows r, r+1, ..
\* have been scored, from the value of best before them
RECURSIVE best_from(_, _, _, _)
best_from(df, r, n, best) ==
    IF r >= n THEN best
    ELSE LET Keep(sc) == IF sc > best[1] THEN <<sc, r>> ELSE best
         IN  best_from(df, r + 1, n, Keep(_score_header_row(df, r)))

\* excel_read._flatten_two_rows
_flatten_two_rows(r1, r2) ==
    [i \in 1..Max(Len(r1), Len(r2)) |->
        LET a == IF i <= Len(r1) /\ r1[i] # PyNone THEN StrOf(r1[i]) ELSE <<>>
            b == IF i <= Len(r2) /\ r2[i] # PyNone THEN StrOf(r2[i]) ELSE <<>>
        IN  IF Strip(b) # <<>> THEN Strip(b) ELSE Strip(a)]

\* sum(1 for v in cols if _norm(v) in EXPECTED_HEADERS)
HeaderScore(cols) ==
    Cardinality({i \in 1..Len(cols) : _norm(cols[i]) \in EXPECTED_HEADERS})

\* df0.iloc[r].astype(str).str.strip().tolist()
StrippedRow(row) == [i \in 1..Len(row) |-> Strip(StrOf(row[i]))]

\* the header decision of a reader, from "best = (-1, -1)" to the choice of
\* the columns and of the first row of the body.  header_idx, body_start are
\* 0-based as in the source; raised: df0.iloc[hdr_idx] is out of bounds.
HeaderDecision(fn, df) ==
    LET NoHeader == [fn |-> fn, raised |-> TRUE, fallback |-> TRUE, header_idx |-> -1,
                     two |-> FALSE, cols |-> <<>>, body_start |-> -1]
        Single(ridx, fb, cols) ==
            [fn |-> fn, raised |-> FALSE, fallback |-> fb, header_idx |-> ridx,
             two |-> FALSE, cols |-> cols, body_start |-> ridx + 1]
        Two(ridx, cols) ==
            [fn |-> fn, raised |-> FALSE, fallback |-> FALSE, header_idx |-> ridx,
             two |-> TRUE, cols |-> cols, body_start |-> ridx + 2]
        Choose(ridx, single_cols, two_cols) ==
            IF HeaderScore(two_cols) > HeaderScore(single_cols)
            THEN Two(ridx, two_cols) ELSE Single(ridx, FALSE, single_cols)
        Decide(best) ==
            IF best[2] = -1
            THEN (IF hdr_idx < Len(df)
                  THEN Single(hdr_idx, TRUE, StrippedRow(ILoc(df, hdr_idx)))
                  ELSE NoHeader)                               \* IndexError
            ELSE Choose(best[2], StrippedRow(ILoc(df, best[2])),
                        _flatten_two_rows(ILoc(df, best[2]),
                                          IF best[2] + 1 < Len(df)
                                          THEN ILoc(df, best[2] + 1) ELSE <<>>))
    IN  Decide(best_from(df, 0, top(df, search_rows), <<-1, -1>>))

\* pandas notna of a cell
notna(v) == v.k \notin {"nan", "none"}

\* the numbers of a set as a list, ascending
Ascending(S) ==
    [k \in 1..Cardinality(S) |-> CHOOSE j \in S : Cardinality({i \in S : i < j}) = k - 1]

\* openpyxl.utils.get_column_letter, for the columns A..Z
get_column_letter(n) == <<UpperChars[n]>>

T_Unnamed == <<"U", "n", "n", "a", "m", "e", "d">>

\* c if c and not str(c).startswith("Unnamed") else ""
clean_name(c) == IF c # <<>> /\ ~StartsWith(c, T_Unnamed) THEN c ELSE <<>>

\* df0.iloc[start:]
body_full_of(df, start) == SubSeq(df, start + 1, Len(df))

\* col_series.notna().any() for the column of 0-based position j
notna_any(body, j) == \E r \in 1..Len(body) : notna(body[r][j + 1])

\* body_kept.loc[:, asked] of a table whose column names may repeat: for each
\* name asked, in order, every column carrying it (positions in columns)
RECURSIVE loc_columns(_, _)
loc_columns(columns, asked) ==
    IF asked = <<>> THEN <<>>
    ELSE Ascending({k \in 1..Len(columns) : columns[k] = Head(asked)})
         \o loc_columns(columns, Tail(asked))

\* what a reader returns after the header decision h.  columns: the names of
\* the table returned; origin: for each of its columns the 0-based position in
\* the raw grid; keep_idx, letter_map as in read_xls_with_positions; error:
\* the exception that ends the call, "" when it returns.
ReaderResult(h, error, columns, origin, keep_idx, letter_map, nrows) ==
    [fn |-> h.fn, raised |-> h.raised, fallback |-> h.fallback, header_idx |-> h.header_idx,
     two |-> h.two, cols |-> h.cols, body_start |-> h.body_start,
     error |-> error, columns |-> columns, origin |-> origin, keep_idx |-> keep_idx,
     letter_map |-> letter_map, nrows |-> nrows]

ReaderFailed(h, error) == ReaderResult(h, error, <<>>, <<>>, <<>>, <<>>, 0)

\* read_xls_smart after the header decision: names cleaned, columns without
\* any value dropped
smart_body(h, body) ==
    LET kept == Ascending({j \in 0..(Len(h.cols) - 1) : notna_any(body, j)})
    IN  ReaderResult(h, "", [k \in 1..Len(kept) |-> clean_name(h.cols[kept[k] + 1])],
                     kept, kept, <<>>, Len(body))

\* letter_map[get_column_letter(j + 1).upper()] = colname over
\* zip(keep_idx, body_labeled.columns)
letter_map_of(keep_idx, final) ==
    LET n == Min(Len(keep_idx), Len(final))
    IN  [L \in {Upper(get_column_letter(keep_idx[k] + 1)) : k \in 1..n} |->
            final[CHOOSE k \in 1..n : Upper(get_column_letter(keep_idx[k] + 1)) = L]]

\* read_xls_with_positions after the header decision
positions_body(h, body) ==
    LET keep_idx == Ascending({j \in 0..(Len(h.cols) - 1) :
                                  Len(body) = 0 \/ notna_any(body, j)})
        clean_names == [k \in 1..Len(keep_idx) |-> clean_name(h.cols[keep_idx[k] + 1])]
        blank == {k \in 1..Len(keep_idx) : clean_names[k] = <<>>}
        Named(c) == c # <<>>
        Labeled(columns, origin, kept) ==
            LET WithMap(final) ==
                    ReaderResult(h, "", final, origin, kept, letter_map_of(kept, final), Len(body))
            IN  WithMap(label_duplicate_columns(columns))
        Selected(pos) ==
            Labeled([i \in 1..Len(pos) |-> clean_names[pos[i]]],
                    [i \in 1..Len(pos) |-> keep_idx[pos[i]]],
                    Ascending({keep_idx[k] : k \in (1..Len(keep_idx)) \ blank}))
    IN  IF Cardinality(blank) >= 2
        THEN ReaderFailed(h, "ValueError")       \* truth value of a Series in any()
        ELSE IF Cardinality(blank) = 1 /\ Len(body) = 0
        THEN Selected(loc_columns(clean_names, SelectSeq(clean_names, Named)))
        ELSE Labeled(clean_names, keep_idx, keep_idx)

\* a reader from the header decision to its return
reader_body(df, h) ==
    IF h.raised THEN ReaderFailed(h, "IndexError")
    ELSE IF h.fn = "read_xls_smart" THEN smart_body(h, body_full_of(df, h.body_start))
    ELSE positions_body(h, body_full_of(df, h.body_start))

----------------------------------------------------------------------------
(* Specification SpecHeader: one call of a reader on a bounded raw grid     *)

\* rows of a raw grid that carry no expected header
FillerRows == {
    <<PyNaN, PyNaN>>,
    <<PyStr(<<"f", "o", "o">>), Num(1, 1)>> }

\* rows placed among them: one expected header, two, none
PlacedRows == {
    <<PyStr(<<"T", "r", "a", "d", "e", " ", "I", "D">>), PyNaN>>,
    <<PyStr(<<"nbsp", "c", "u", "r", "r", "e", "n", "c", "y", " ">>), PyStr(<<"N", "O", "T", "I", "O", "N", "A", "L">>)>>,
    <<PyNaN, PyStr(<<"T", "r", "a", "d", "e", " ", "I", "D">>)>>,
    <<PyStr(<<"f", "o", "o">>), PyNaN>> }

\* a grid of len rows: fillers, with rows a and b placed at p and q (1-based)
Grid(len, filler, p, a, q, b) ==
    [i \in 1..len |-> IF i = p THEN a ELSE IF i = q THEN b ELSE filler]

InitHeader ==
    /\ pc = "hdr_call"
    /\ \E len \in 0..MaxGridLen, filler \in FillerRows, a \in PlacedRows, b \in PlacedRows :
         \E p \in 1..(len + 1), q \in 1..(len + 1) :
           /\ p < q \/ p = len + 1
           /\ df0 = Grid(len, filler, p, a, q, b)
    /\ hdr = Idle
    /\ expr = Idle /\ env = Idle /\ ret = Unset
    /\ cfg = Idle /\ df_all = Idle /\ data = Idle /\ ws = Idle /\ rwrite = 0 /\ out_file = Idle
    /\ template = Idle /\ targets_index = Idle /\ wb = Idle /\ LibIdle

read_xls_smart ==
    /\ pc = "hdr_call"
    /\ hdr' = reader_body(df0, HeaderDecision("read_xls_smart", df0))
    /\ pc' = "hdr_done"
    /\ UNCHANGED <<expr, env, ret, cfg, df_all, data, ws, rwrite, out_file, template,
                   targets_index, df0, wb, libVars>>

read_xls_with_positions ==
    /\ pc = "hdr_call"
    /\ hdr' = reader_body(df0, HeaderDecision("read_xls_with_positions", df0))
    /\ pc' = "hdr_done"
    /\ UNCHANGED <<expr, env, ret, cfg, df_all, data, ws, rwrite, out_file, template,
                   targets_index, df0, wb, libVars>>

NextHeader == read_xls_smart \/ read_xls_with_positions

SpecHeader == InitHeader /\ [][NextHeader]_vars

----------------------------------------------------------------------------
(* Specification SpecPositions: one call of a reader on a grid of           *)
(* NPosCols columns: an optional empty first row, a header row, body rows   *)

NPosCols == 4              \* width of the grids
MaxBodyRows == 1           \* most rows under the header row

HeaderCells == {PyStr(T_TradeID), PyStr(T_Notional), PyStr(<<" ">>), PyNaN}
BodyCells == {PyNaN, Num(1, 1)}

InitPositions ==
    /\ pc = "hdr_call"
    /\ \E lead \in 0..1, n \in 0..MaxBodyRows :
         \E header \in [1..NPosCols -> HeaderCells],
            body \in [1..n -> [1..NPosCols -> BodyCells]] :
           df0 = [i \in 1..lead |-> [c \in 1..NPosCols |-> PyNaN]] \o <<header>> \o body
    /\ hdr = Idle
    /\ EvalIdle /\ IntIdle /\ LibIdle

SpecPositions == InitPositions /\ [][NextHeader]_vars

----------------------------------------------------------------------------
(* Claims on the header row, checked under SpecHeader                       *)

\* the candidate rows (0-based) and their scores
Window == 0..(Min(search_rows, Len(df0)) - 1)

\* row r is the one row of the window with an expected header token
OnlyScoringRow(r) ==
    /\ r \in Window
    /\ _score_header_row(df0, r) >= 1
    /\ \A o \in Window \ {r} : _score_header_row(df0, o) = 0

\* C9: when exactly one row of the first search_rows (12) rows has a cell whose
\* canonical text is an expected header and every other row of that window has
\* none, both readers take that row as the header row (ridx), with the
\* single-row header as with the two-row flattened header.
C9_UniqueScoringRowIsHeader ==
    pc = "hdr_done" =>
        \A r \in Window :
            OnlyScoringRow(r) =>
                /\ ~hdr.raised /\ ~hdr.fallback
                /\ hdr.header_idx = r
                /\ hdr.body_start = (IF hdr.two THEN r + 2 ELSE r + 1)

C9_Witness ==
    /\ pc = "hdr_done" /\ hdr.fn = "read_xls_with_positions"
    /\ OnlyScoringRow(11) /\ Len(df0) = 14
    /\ _score_header_row(df0, 12) = 2
    /\ hdr.header_idx = 11 /\ hdr.two /\ hdr.body_start = 13

\* C10: when every candidate row of the search window scores 0, the header row
\* is the fixed index 5 (spreadsheet row 6) and the body starts at index 6.
C10_FallbackToRowSix ==
    (/\ pc = "hdr_done"
     /\ Window # {}
     /\ \A r \in Window : _score_header_row(df0, r) = 0) =>
        /\ ~hdr.raised
        /\ hdr.header_idx = hdr_idx
        /\ hdr.body_start = hdr_idx + 1

----------------------------------------------------------------------------
(* Claims on the destination sheet, checked under SpecIntegrate             *)

\* C20: when the sheet name of the configuration does not exist in the
\* template workbook, the run fails and no row data is written to any sheet.
C20_MissingSheetWritesNothing ==
    (pc \in {"int_rows", "int_raised", "int_done"}
     /\ ~HasSheet(wb.sheetnames, cfg.sheet)) =>
        /\ pc # "int_done"
        /\ rwrite = 0
        /\ \A r \in (header_row_of(cfg) + 1)..NRows : ws[r] = template[r]

----------------------------------------------------------------------------
(* Claims on the letter map, checked under SpecPositions                    *)

\* the call of read_xls_with_positions has returned
PositionsReturned ==
    pc = "hdr_done" /\ hdr.fn = "read_xls_with_positions" /\ hdr.error = ""

\* C17: for every column of the table returned by read_xls_with_positions
\* whose original 0-based grid position is j, letter_map maps the letter of
\* position j + 1 to that column's final name, also when columns to its left
\* were dropped; the letters of the map are those of the kept positions only.
C17_LetterMapFidelity ==
    PositionsReturned =>
        /\ \A k \in 1..Len(hdr.columns) :
              /\ get_column_letter(hdr.origin[k] + 1) \in DOMAIN hdr.letter_map
              /\ \E k2 \in 1..Len(hdr.columns) :
                    /\ hdr.origin[k2] = hdr.origin[k]
                    /\ hdr.letter_map[get_column_letter(hdr.origin[k] + 1)] = hdr.columns[k2]
        /\ DOMAIN hdr.letter_map =
              {get_column_letter(hdr.origin[k] + 1) : k \in 1..Len(hdr.columns)}

----------------------------------------------------------------------------
(* Claims on integrate_yaml_to_template, checked under SpecIntegrate        *)

Started == pc \in {"int_rows", "int_raised", "int_done"}

HeaderRow == header_row_of(cfg)

\* the items in the order the loops (a) and (c) take them
Items == cfg.columns \o cfg.computed

\* the columns whose header cell carries the canonical label lab
LabelColumns(lab) ==
    {c \in 1..NCols : /\ ws[HeaderRow][c] # PyNone
                      /\ _norm(StrOf(ws[HeaderRow][c])) = lab}

\* the k-th column, left to right, that carries the label; 0 when there is none
KthColumn(lab, k) ==
    LET S == LabelColumns(lab)
        Is(c) == Cardinality({c2 \in S : c2 <= c}) = k
    IN  IF \E c \in S : Is(c) THEN CHOOSE c \in S : Is(c) ELSE 0

\* the column an item is to be written at, 0 when it is to be skipped
Addressed(item) ==
    IF item.target_letter # <<>> THEN column_index_from_string(item.target_letter)
    ELSE IF item.target # <<>> THEN KthColumn(_norm(item.target), item.target_occurrence)
    ELSE 0

\* item k is written, and no later item of the row is written at its column
LastAt(k) ==
    /\ Addressed(Items[k]) # 0
    /\ \A j \in (k + 1)..Len(Items) : Addressed(Items[j]) # Addressed(Items[k])

\* the variables of the i-th in-scope row: x is column B, y the column "Y"
RowX(i) == _parse_number(InScopeRows(df_all)[i].vals[2])
RowY(i) == _parse_number(InScopeRows(df_all)[i].vals[3])

Quotient(a, b) ==
    IF a = PyNone \/ b = PyNone \/ b.n = 0 THEN PyNone ELSE Num(a.n * b.d, a.d * b.n)

Product(a, b) ==
    IF a = PyNone \/ b = PyNone THEN PyNone ELSE Num(a.n * b.n, a.d * b.d)

IsQuotientItem(item) == item.kind = "computed" /\ item.expr = <<"x", "/", "y">>

DateLabelled(item) == item.target # <<>> /\ _norm(item.target) \in DATE_TARGETS

\* C1: for every in-scope row i, in input order, and every computed item x/y
\* whose target label is not a date label, the cell of that item in destination
\* row header_row + i (i counted from 1) holds x_i / y_i of that same row, and
\* None when y_i is 0 or None or x_i is None; nothing of another row is used.
C1_QuotientWrittenPerRow ==
    Started =>
        \A i \in 1..rwrite, k \in 1..Len(Items) :
            (IsQuotientItem(Items[k]) /\ LastAt(k) /\ ~DateLabelled(Items[k])) =>
                ws[HeaderRow + i][Addressed(Items[k])] = Quotient(RowX(i), RowY(i))

\* C1 as stated, for every target label: the cell holds x_i / y_i or None
C1_QuotientWhateverLabel ==
    Started =>
        \A i \in 1..rwrite, k \in 1..Len(Items) :
            (IsQuotientItem(Items[k]) /\ LastAt(k)) =>
                ws[HeaderRow + i][Addressed(Items[k])] = Quotient(RowX(i), RowY(i))

C1_Witness ==
    /\ pc = "int_done" /\ rwrite = 2
    /\ IsQuotientItem(Items[Len(cfg.columns) + 1])
    /\ LastAt(Len(cfg.columns) + 1)
    /\ ~DateLabelled(Items[Len(cfg.columns) + 1])
    /\ RowX(1) = Num(120, 1) /\ RowY(1) = Num(2, 1) /\ RowY(2) = Num(0, 1)
    /\ ws[HeaderRow + 1][Addressed(Items[Len(cfg.columns) + 1])] = Num(60, 1)
    /\ ws[HeaderRow + 2][Addressed(Items[Len(cfg.columns) + 1])] = PyNone

\* the names an expression uses that eval() cannot resolve
RECURSIVE UnknownNames(_)
UnknownNames(node) ==
    IF node.op = "name"
    THEN {node.id} \ (DOMAIN cfg.variables \cup {"_div", "None"})
    ELSE UNION {UnknownNames(node.args[i]) : i \in 1..Len(node.args)}

\* unknown variable name, malformed or empty syntax
CannotEvaluate(e) ==
    ~ParseExpr(e).ok \/ UnknownNames(ParseExpr(e).ast) # {}

\* the value item k has for the i-th in-scope row
ExpectedValue(k, i) ==
    LET Of(row) ==
            ItemValue(Items[k], row,
                      [x |-> _parse_number(row.vals[2]), y |-> _parse_number(row.vals[3])],
                      df_all.orders_by_file, df_all, TRUE)
    IN  Of(InScopeRows(df_all)[i])

\* an item that is written and whose value openpyxl refuses for some row
Unstorable(k) ==
    /\ Addressed(Items[k]) # 0
    /\ \E i \in 1..Len(InScopeRows(df_all)) : ~CanStore(ExpectedValue(k, i))

\* C4: a computed item whose expression cannot be evaluated (unknown name,
\* malformed or empty text) gets None in its cell; the run does not abort on
\* it, every other item of the row has its value in its cell, and so have the
\* items of the later rows: the run ends with every in-scope row written.
C4_UnevaluableYieldsNullOnly ==
    Started =>
        LET last == {j \in 1..Len(Items) : LastAt(j)}
            col  == [j \in last |-> Addressed(Items[j])]
        IN  \A k \in 1..Len(Items) :
                (Items[k].kind = "computed" /\ CannotEvaluate(Items[k].expr)) =>
                    /\ pc = "int_raised" => \E j \in 1..Len(Items) : Unstorable(j)
                    /\ pc = "int_done" => rwrite = Len(InScopeRows(df_all))
                    /\ \A i \in 1..rwrite :
                           /\ k \in last => ws[HeaderRow + i][col[k]] = PyNone
                           /\ \A j \in last \ {k} :
                                  ~DateLabelled(Items[j]) =>
                                      ws[HeaderRow + i][col[j]] = ExpectedValue(j, i)

C4_Witness ==
    /\ pc = "int_done" /\ rwrite = 2
    /\ cfg.computed[1].expr = <<"x", "+">>
    /\ LastAt(Len(cfg.columns) + 1)
    /\ ws[HeaderRow + 1][Addressed(cfg.computed[1])] = PyNone
    /\ ws[HeaderRow + 2][Addressed(cfg.computed[1])] = PyNone
    /\ ws[HeaderRow + 1][2] = Num(240, 1)
    /\ ws[HeaderRow + 2][2] = Num(15, 2)

ExampleHeader ==
    <<PyStr(<<"C", "o", "d", "e">>), PyStr(<<"P", "r", "i", "c", "e">>),
      PyStr(<<"P", "r", "i", "c", "e">>), PyStr(<<"P", "r", "i", "c", "e">>)>>

ByLabel(item) == item.target_letter = <<>> /\ item.target # <<>>

\* C6: build_targets_index maps each canonical label of the header row to the
\* list of its 1-based columns, left to right; a target (label, k) resolves to
\* the k-th column that carries the label, and that is the column written; for
\* the header row [Code, Price, Price, Price], (Price, 2) resolves to column 3.
C6_OccurrenceResolution ==
    Started =>
        /\ DOMAIN targets_index =
               { _norm(StrOf(ws[HeaderRow][c])) :
                     c \in {c2 \in 1..NCols : ws[HeaderRow][c2] # PyNone} }
        /\ \A lab \in DOMAIN targets_index :
               /\ {targets_index[lab][i] : i \in 1..Len(targets_index[lab])}
                      = LabelColumns(lab)
               /\ \A i, j \in 1..Len(targets_index[lab]) :
                      i < j => targets_index[lab][i] < targets_index[lab][j]
        /\ \A k \in 1..Len(Items) :
               ByLabel(Items[k]) =>
                   LET kth == KthColumn(_norm(Items[k].target), Items[k].target_occurrence)
                   IN  /\ TargetColumn(Items[k], targets_index) = kth
                       /\ \A i \in 1..rwrite : kth # 0 => ws[HeaderRow + i][kth] # OldCell
        /\ SubSeq(ws[HeaderRow], 1, 4) = ExampleHeader =>
               TargetColumn([target |-> <<"P", "r", "i", "c", "e">>,
                             target_occurrence |-> 2, target_letter |-> <<>>],
                            targets_index) = 3

C6_Witness ==
    /\ pc = "int_done" /\ rwrite = 1
    /\ SubSeq(ws[HeaderRow], 1, 4) = ExampleHeader
    /\ cfg.computed[1].target = <<"P", "r", "i", "c", "e">>
    /\ cfg.computed[1].target_occurrence = 2
    /\ cfg.computed[1].expr = <<"x", "/", "y">>
    /\ targets_index[<<"p", "r", "i", "c", "e">>] = <<2, 3, 4>>
    /\ RowX(1) = Num(10, 1) /\ ws[HeaderRow + 1][3] = Num(2, 1)

\* the occurrence of an item addressed by label is out of range for the label
OutOfRange(item) ==
    /\ ByLabel(item)
    /\ ~(/\ 1 <= item.target_occurrence
         /\ item.target_occurrence <= Cardinality(LabelColumns(_norm(item.target))))

\* C7: an item, direct or computed, whose occurrence is out of range for its
\* label (below 1, above the number of columns with the label, label absent)
\* writes no cell and raises no error, and the other items of the row are
\* written: in each written row exactly the columns of the items in range
\* are changed.
C7_OutOfRangeSkipped ==
    Started =>
        LET skipped == {k \in 1..Len(Items) : OutOfRange(Items[k])}
            written == {Addressed(Items[j]) : j \in (1..Len(Items)) \ skipped}
        IN  skipped # {} =>
                /\ pc = "int_raised" => \E j \in 1..Len(Items) : Unstorable(j)
                /\ \A i \in 1..rwrite, c \in 1..NCols :
                       IF c \in written
                       THEN ws[HeaderRow + i][c] # OldCell
                       ELSE ws[HeaderRow + i][c] = OldCell

C7_Witness ==
    /\ pc = "int_done" /\ rwrite = 2
    /\ OutOfRange(cfg.computed[1]) /\ cfg.computed[1].target_occurrence = 2
    /\ cfg.computed[1].expr = <<"(", ")">>
    /\ Len(cfg.columns) = 2 /\ OutOfRange(cfg.columns[2])
    /\ ws[HeaderRow + 2][3] = OldCell /\ ws[HeaderRow + 2][4] = OldCell
    /\ ws[HeaderRow + 2][2] # OldCell

\* C8: the k-th in-scope row, in input order, is written to destination row
\* header_row + k: the rows written are consecutive from the row below the
\* header, without gaps, whatever items are skipped or None, and no row
\* further down is touched.
C8_RowsInOrderNoGaps ==
    Started =>
        LET rows   == InScopeRows(df_all)
            c_code == get_col(df_all.columns, CodeColumnName)
        IN
        /\ rwrite <= Len(rows)
        /\ pc = "int_done" => rwrite = Len(rows)
        /\ \A k \in 1..rwrite :
               /\ ws[HeaderRow + k][2] = Product(_parse_number(rows[k].vals[2]),
                                                 _parse_number(rows[k].vals[3]))
               /\ ws[HeaderRow + k][1] = RowGet(df_all, rows[k], c_code)
        /\ \A r \in 1..NRows, c \in 1..NCols :
               r > HeaderRow + rwrite + (IF pc = "int_raised" THEN 1 ELSE 0) =>
                   ws[r][c] = OldCell

C8_Witness ==
    /\ pc = "int_done" /\ rwrite = 2 /\ Len(df_all.rows) = 2
    /\ OutOfRange(cfg.computed[1])
    /\ df_all.rows[1].vals[1] = PyStr(<<"G", "H", "7", "8">>)
    /\ df_all.rows[2].vals[1] = PyStr(<<"A", "B", "1", "2">>)
    /\ ws[HeaderRow + 1][1] = PyStr(<<"G", "H", "7", "8">>)
    /\ ws[HeaderRow + 2][1] = PyStr(<<"A", "B", "1", "2">>)
    /\ ws[HeaderRow + 1][2] = Num(15, 2) /\ ws[HeaderRow + 2][2] = Num(240, 1)

----------------------------------------------------------------------------
(* Frame of integrate_yaml_to_template, checked under SpecIntegrate         *)

\* the columns addressed by the mapping items
AddressedColumns == {Addressed(Items[k]) : k \in 1..Len(Items)} \ {0}

\* C21: in the filled copy only the cells of an addressed column in the data
\* rows below the header row differ from the template; the header row and
\* every cell above it keep the template's value.
C21_OnlyAddressedCells ==
    Started =>
        \A r \in 1..NRows, c \in 1..NCols :
            (r <= HeaderRow \/ c \notin AddressedColumns) => ws[r][c] = template[r][c]

----------------------------------------------------------------------------
(* Rows written and the file on disk, checked under SpecIntegrate           *)

\* the positions, in the input table, of the rows that pass valid_code_mask
\* (every row when the table has no code column)
PassingRows ==
    LET c_code == get_col(df_all.columns, CodeColumnName)
    IN  {i \in 1..Len(df_all.rows) :
            c_code = <<>> \/ valid_code_mask(RowGet(df_all, df_all.rows[i], c_code))}

\* C27: a run that reaches its end has written one destination row for every
\* input row that passes valid_code_mask, in input order, rows with the same
\* identifiers included: the k-th row under the header comes from the k-th
\* passing row, and rwrite is the number of passing rows.
C27_OneRowPerInScopeRow ==
    Started =>
        LET passing == Ascending(PassingRows)
        IN  /\ rwrite <= Len(passing)
            /\ pc = "int_done" => rwrite = Len(passing)
            /\ \A k \in 1..rwrite :
                   ws[HeaderRow + k][2] =
                       Product(_parse_number(df_all.rows[passing[k]].vals[2]),
                               _parse_number(df_all.rows[passing[k]].vals[3]))

C27_Witness ==
    /\ pc = "int_done" /\ rwrite = 2 /\ Len(df_all.rows) = 2
    /\ df_all.rows[1] = df_all.rows[2]
    /\ PassingRows = {1, 2}
    /\ ws[HeaderRow + 1][2] = Num(240, 1) /\ ws[HeaderRow + 2][2] = Num(240, 1)

\* C28: the destination file is created as a copy of the template and is
\* written once more only by the final save: until then, also after an
\* exception in a row, it equals the template; the template file stays one of
\* the unmodified templates.
C28_SavedOnceAtTheEnd ==
    /\ pc = "int_call" => out_file = Idle
    /\ pc \in {"int_rows", "int_raised"} => out_file = template
    /\ pc = "int_done" => out_file = ws
    /\ Started => \E header \in Headers : template = TemplateSheet(header, HeaderRow)

C28_Witness ==
    /\ pc = "int_raised" /\ Len(data) = 2
    /\ ws[HeaderRow + 1][1] # OldCell
    /\ out_file = template
    /\ out_file[HeaderRow + 1][1] = OldCell

----------------------------------------------------------------------------
(* Display format of a written cell: yaml_apply._apply_number_format        *)

\* the number formats cell.number_format takes
PercentFormat == "0.00%"
DateFormat == "dd/mm/yyyy"

\* yaml_apply._apply_number_format: the number format of the cell afterwards;
\* label = <<>> when the item has no target label
_apply_number_format(number_format_was, label) ==
    IF label = <<>> THEN number_format_was
    ELSE IF _norm(label) \in PERCENT_TARGETS THEN PercentFormat
    ELSE IF _norm(label) \in DATE_TARGETS THEN DateFormat
    ELSE number_format_was

(* Specification SpecFormat: one call of _apply_number_format               *)

\* the percentage labels of the computed items of workflow_tab.YAML_DEFAULT
DefaultPercentLabels == {
    <<"D", "i", "r", "t", "y", " ", "V", "a", "l", "u", "e", " ", "(", "%", ")">>,
    <<"C", "l", "e", "a", "n", " ", "V", "a", "l", "u", "e", " ", "(", "%", ")">>,
    <<"A", "c", "c", "r", "u", "e", "d", " ", "I", "n", "t", "e", "r", "e", "s", "t", " ", "(", "%", ")">> }

\* the percentage labels as yaml_apply.PERCENT_TARGETS spells them
ListedPercentLabels == {
    <<"D", "i", "r", "t", "y", " ", "V", "a", "l", "u", "e", "(", "%", ")">>,
    <<"C", "l", "e", "a", "n", " ", "V", "a", "l", "u", "e", "(", "%", ")">>,
    <<"A", "c", "c", "r", "u", "e", "d", " ", "I", "n", "t", "e", "r", "e", "s", "t", "(", "%", ")">> }

DateLabels == {
    <<"S", "t", "a", "r", "t", " ", "D", "a", "t", "e">>,
    <<"E", "n", "d", " ", "D", "a", "t", "e">> }

OtherLabels == {
    <<"N", "o", "t", "i", "o", "n", "a", "l">>,
    <<"D", "i", "r", "t", "y", " ", "V", "a", "l", "u", "e">>,
    <<"S", "p", "r", "e", "a", "d", " ", "(", "b", "p", ")">>,
    <<"C", "u", "r", "r", "e", "n", "c", "y">>, <<>> }

\* a label as written, in upper case, between non-breaking spaces
Spellings(t) == {t, Upper(t), IF t = <<>> THEN t ELSE <<NBSP>> \o t \o <<" ">>}

FormatLabels ==
    UNION {Spellings(t) : t \in DefaultPercentLabels \cup ListedPercentLabels
                                  \cup DateLabels \cup OtherLabels}

CellFormats == {"General", "0.00", PercentFormat, DateFormat}

InitFormat ==
    /\ pc = "fmt_call"
    /\ item_target \in FormatLabels
    /\ number_format \in CellFormats
    /\ RecIdle /\ EnrIdle
    /\ LabIdle /\ PerIdle /\ SrcIdle /\ NumIdle /\ CoreIdle

apply_number_format ==
    /\ pc = "fmt_call"
    /\ number_format' = _apply_number_format(number_format, item_target)
    /\ pc' = "fmt_done"
    /\ UNCHANGED <<item_target, recVars, enrVars, labVars, perVars, srcVars, numVars,
                   coreVars>>

NextFormat == apply_number_format

SpecFormat == InitFormat /\ [][NextFormat]_vars

(* Claims on the display format, checked under SpecFormat                   *)

\* C22: a cell written for a percentage target, the label spelled as in the
\* default mapping's computed items, has the percentage format, and a cell
\* written for Start Date or End Date has dd/mm/yyyy, whatever format the
\* cell had.
C22_FormatByTargetLabel ==
    pc = "fmt_done" =>
        /\ item_target \in DefaultPercentLabels => number_format = PercentFormat
        /\ item_target \in DateLabels => number_format = DateFormat

----------------------------------------------------------------------------
(* External Data Reconciler: collateral_compare.normalize_label,            *)
(* _aggregate_by_norm and build_collateral_comparison.  A table is          *)
(* [columns, rows]: columns tells whether the table has its columns (a      *)
(* table built from an empty list of rows has none); a row is               *)
(* [cp, typ, gam, ctp]: Counterparty, Classif DI or Typologie, MtM Gam,     *)
(* MtM Counterparty.                                                        *)

MaxSideRows == 2           \* most rows of a table given to the reconciler

\* the characters of the labels in code point order
CodePoints == <<" ">> \o Digits \o UpperChars \o LowerChars \o <<NBSP>>
Ord(c) == CHOOSE i \in 1..Len(CodePoints) : CodePoints[i] = c

\* a < b for two str
RECURSIVE TextLess(_, _)
TextLess(a, b) ==
    IF b = <<>> THEN FALSE
    ELSE IF a = <<>> THEN TRUE
    ELSE IF Head(a) = Head(b) THEN TextLess(Tail(a), Tail(b))
    ELSE Ord(Head(a)) < Ord(Head(b))

\* pd.isna of a cell
isna(v) == v.k \in {"nan", "none"}

\* collateral_compare._clean_label: a str or None
_clean_label(value) ==
    IF value.k = "none" THEN PyNone
    ELSE LET Cleaned(t) == IF t = <<>> THEN PyNone ELSE PyStr(JoinWords(SplitWords(t, <<>>)))
         IN  Cleaned(Strip(StrOf(value)))

\* str.casefold, for the letters A..Z
casefold(t) == Lower(t)

\* a variant of normalize_label that looks the cleaned label up as written
normalize_label_CaseSensitive(value, mapping) ==
    LET Of(cleaned) ==
            IF cleaned.k = "none" THEN PyNone
            ELSE IF cleaned.s \in DOMAIN mapping /\ mapping[cleaned.s] # <<>>
            THEN PyStr(mapping[cleaned.s])
            ELSE PyStr(Upper(cleaned.s))
    IN  Of(_clean_label(value))

\* collateral_compare.normalize_label; mapping: casefolded alias -> canonical
\* value, the empty function for None or {}
normalize_label(value, mapping) ==
    LET Of(cleaned) ==
            IF cleaned.k = "none" THEN PyNone
            ELSE IF casefold(cleaned.s) \in DOMAIN mapping /\ mapping[casefold(cleaned.s)] # <<>>
            THEN PyStr(mapping[casefold(cleaned.s)])
            ELSE PyStr(Upper(cleaned.s))
    IN  Of(_clean_label(value))

\* collateral_compare._first_notna
RECURSIVE _first_notna(_)
_first_notna(series) ==
    IF series = <<>> THEN PyNone
    ELSE IF ~isna(Head(series)) THEN Head(series)
    ELSE _first_notna(Tail(series))

\* the loop of _sum_notna from the running total
RECURSIVE sum_from(_, _)
sum_from(series, total) ==
    IF series = <<>> THEN total
    ELSE IF isna(Head(series)) THEN sum_from(Tail(series), total)
    ELSE sum_from(Tail(series), ArithNum("+", total, ToFloat(Head(series))))

\* collateral_compare._sum_notna (0.0 when no value is present)
_sum_notna(series) == sum_from(series, Num(0, 1))

\* the key of a row that carries the two normalised labels
KeyOf(row) == <<row.norm_cp.s, row.norm_typ.s>>

\* key a sorts before key b
KeyLess(a, b) == TextLess(a[1], b[1]) \/ (a[1] = b[1] /\ TextLess(a[2], b[2]))

\* a stable ascending sort by key: each row goes behind the rows whose key is
\* not greater
RECURSIVE insert_by_key(_, _)
insert_by_key(sorted, row) ==
    IF sorted = <<>> THEN <<row>>
    ELSE IF KeyLess(KeyOf(row), KeyOf(Head(sorted))) THEN <<row>> \o sorted
    ELSE <<Head(sorted)>> \o insert_by_key(Tail(sorted), row)

\* a variant of the sort that leaves the rows as they are
sort_values_AsIs(rows) == rows

\* DataFrame.sort_values(by=[norm keys], kind="mergesort", na_position="last")
\* on rows whose keys are present
RECURSIVE sort_values(_)
sort_values(rows) ==
    IF rows = <<>> THEN <<>>
    ELSE insert_by_key(sort_values(SubSeq(rows, 1, Len(rows) - 1)), rows[Len(rows)])

\* the rows with the two normalised labels added, rows without one dropped
\* (the map of lines 302-313 and the dropna of lines 315-316)
with_norm(rows, cp_aliases, typ_aliases) ==
    LET Normed(i) == [cp |-> rows[i].cp, typ |-> rows[i].typ,
                       gam |-> rows[i].gam, ctp |-> rows[i].ctp,
                       norm_cp |-> normalize_label(rows[i].cp, cp_aliases),
                       norm_typ |-> normalize_label(rows[i].typ, typ_aliases)]
        Keyed(r) == ~isna(r.norm_cp) /\ ~isna(r.norm_typ)
    IN  SelectSeq([i \in 1..Len(rows) |-> Normed(i)], Keyed)

\* collateral_compare._aggregate_by_norm: one row per key, keys ascending
\* (groupby sorts them); the table as it is when it has no row
_aggregate_by_norm(rows) ==
    LET firsts == Ascending({i \in 1..Len(rows) :
                               \A j \in 1..(i - 1) : KeyOf(rows[j]) # KeyOf(rows[i])})
        Group(key) == SelectSeq(rows, LAMBDA r : KeyOf(r) = key)
        Col(g, f) == [i \in 1..Len(g) |-> g[i][f]]
        Agg(g) == [norm_cp |-> g[1].norm_cp, norm_typ |-> g[1].norm_typ,
                   cp |-> _first_notna(Col(g, "cp")), typ |-> _first_notna(Col(g, "typ")),
                   gam |-> _sum_notna(Col(g, "gam")), ctp |-> _sum_notna(Col(g, "ctp"))]
    IN  IF rows = <<>> THEN rows
        ELSE sort_values([k \in 1..Len(firsts) |-> Agg(Group(KeyOf(rows[firsts[k]])))])

\* the side of a merged row for which the other table has no row
Absent == [cp |-> PyNaN, typ |-> PyNaN, gam |-> PyNaN, ctp |-> PyNaN]

fillna(v) == IF isna(v) THEN Num(0, 1) ELSE v

\* a variant of the two discrepancy columns: external minus template
ComparisonRow_Reversed(key, t, c) ==
    [norm_cp |-> PyStr(key[1]), norm_typ |-> PyStr(key[2]),
     cp_template |-> t.cp, classif |-> t.typ,
     gam_template |-> fillna(t.gam), ctp_template |-> fillna(t.ctp),
     cp_collateral |-> c.cp, typologie |-> c.typ,
     gam_collateral |-> fillna(c.gam), ctp_collateral |-> fillna(c.ctp),
     ecart_gam |-> ArithNum("-", fillna(c.gam), fillna(t.gam)),
     ecart_ctp |-> ArithNum("-", fillna(c.ctp), fillna(t.ctp)),
     present_template |-> ~isna(t.cp), present_collat |-> ~isna(c.cp)]

\* a row of the result from the template side t and the collateral side c of
\* a key (lines 325-347): zero fill, discrepancies, presence flags
ComparisonRow(key, t, c) ==
    [norm_cp |-> PyStr(key[1]), norm_typ |-> PyStr(key[2]),
     cp_template |-> t.cp, classif |-> t.typ,
     gam_template |-> fillna(t.gam), ctp_template |-> fillna(t.ctp),
     cp_collateral |-> c.cp, typologie |-> c.typ,
     gam_collateral |-> fillna(c.gam), ctp_collateral |-> fillna(c.ctp),
     ecart_gam |-> ArithNum("-", fillna(t.gam), fillna(c.gam)),
     ecart_ctp |-> ArithNum("-", fillna(t.ctp), fillna(c.ctp)),
     present_template |-> ~isna(t.cp), present_collat |-> ~isna(c.cp)]

\* coll.merge(tmpl, how="outer", on=[norm keys]) followed by lines 325-347:
\* the keys of coll, then the keys only tmpl has (the order in which merge
\* leaves the keys does not reach the result, which is sorted afterwards)
merge(coll, tmpl) ==
    LET Side(rows, key) ==
            IF \E i \in 1..Len(rows) : KeyOf(rows[i]) = key
            THEN rows[CHOOSE i \in 1..Len(rows) : KeyOf(rows[i]) = key]
            ELSE Absent
        right_only == SelectSeq(tmpl, LAMBDA r : \A i \in 1..Len(coll) : KeyOf(coll[i]) # KeyOf(r))
    IN  [k \in 1..Len(coll) |->
            ComparisonRow(KeyOf(coll[k]), Side(tmpl, KeyOf(coll[k])), coll[k])]
        \o [k \in 1..Len(right_only) |->
            ComparisonRow(KeyOf(right_only[k]), right_only[k], Absent)]

\* DataFrame.empty: no row or no column
empty(df) == ~df.columns \/ df.rows = <<>>

\* collateral_compare.build_collateral_comparison: the rows returned, or the
\* KeyError of tmpl["Counterparty"] / coll["Counterparty"] on a table
\* without columns
build_collateral_comparison(tmpl_df, coll_df, counterparty_aliases, typology_aliases) ==
    IF empty(tmpl_df) /\ empty(coll_df) THEN [raised |-> FALSE, rows |-> <<>>]
    ELSE IF ~tmpl_df.columns \/ ~coll_df.columns THEN [raised |-> TRUE, rows |-> <<>>]
    ELSE [raised |-> FALSE,
          rows |-> sort_values(merge(
                       _aggregate_by_norm(with_norm(coll_df.rows, counterparty_aliases,
                                                    typology_aliases)),
                       _aggregate_by_norm(with_norm(tmpl_df.rows, counterparty_aliases,
                                                    typology_aliases))))]

(* Specification SpecCompare: one call of build_collateral_comparison       *)

RecRow(cp, typ, gam, ctp) == [cp |-> cp, typ |-> typ, gam |-> gam, ctp |-> ctp]

\* rows of a template table
TemplateRows == {
    RecRow(PyStr(<<"A">>), PyStr(<<"X">>), Num(100, 1), Num(10, 1)),
    RecRow(PyStr(<<" ", "a", NBSP>>), PyStr(<<"x">>), Num(50, 1), PyNone),
    RecRow(PyStr(<<"B">>), PyStr(<<"Y">>), Num(50, 1), Num(5, 1)),
    RecRow(PyStr(<<"B", "a", "n", "k">>), PyStr(<<"Y">>), PyNaN, Num(-5, 1)),
    RecRow(PyStr(<<" ">>), PyStr(<<"X">>), Num(1, 1), Num(1, 1)),
    RecRow(PyStr(<<"B">>), PyStr(<<"X">>), PyNone, PyNone) }

\* rows of a collateral table as load_collateral_summary leaves them: labels
\* cleaned and present, amounts float or None
CollateralRows == {
    RecRow(PyStr(<<"a">>), PyStr(<<"x">>), Num(50, 1), PyNone),
    RecRow(PyStr(<<"B">>), PyStr(<<"Y">>), Num(50, 1), Num(5, 1)),
    RecRow(PyStr(<<"B", "a", "n", "k">>), PyStr(<<"Y">>), PyNone, Num(-5, 1)) }

\* the tables of a side: up to MaxSideRows rows, or built from no row at all
RecTables(kinds) ==
    {[columns |-> TRUE, rows |-> rows] :
        rows \in UNION {[1..n -> kinds] : n \in 0..MaxSideRows}}
    \cup {[columns |-> FALSE, rows |-> <<>>]}

\* the alias mappings as parse_alias_mapping builds them: none, or
\* "Bank = B" for the counterparties and "x = Swap" for the typologies
AliasChoices == {
    [counterparty |-> <<>>, typology |-> <<>>],
    [counterparty |-> (<<"b", "a", "n", "k">> :> <<"B">>) @@ (<<"b">> :> <<"B">>),
     typology |-> (<<"x">> :> <<"S", "w", "a", "p">>)
                  @@ (<<"s", "w", "a", "p">> :> <<"S", "w", "a", "p">>)] }

InitCompare ==
    /\ pc = "rec_call"
    /\ template_df \in RecTables(TemplateRows)
    /\ collateral_df \in RecTables(CollateralRows)
    /\ aliases \in AliasChoices
    /\ comparison = Idle
    /\ FmtIdle /\ EnrIdle
    /\ LabIdle /\ PerIdle /\ SrcIdle /\ NumIdle /\ CoreIdle

compare ==
    /\ pc = "rec_call"
    /\ comparison' = build_collateral_comparison(template_df, collateral_df,
                                                 aliases.counterparty, aliases.typology)
    /\ pc' = "rec_done"
    /\ UNCHANGED <<template_df, collateral_df, aliases, fmtVars, enrVars, labVars, perVars,
                   srcVars, numVars, coreVars>>

NextCompare == compare

SpecCompare == InitCompare /\ [][NextCompare]_vars

----------------------------------------------------------------------------
(* Claims about build_collateral_comparison (SpecCompare)                   *)

Compared == pc = "rec_done"

\* the normalised keys of the rows of a table
KeysOf(df) ==
    {<<normalize_label(df.rows[i].cp, aliases.counterparty).s,
       normalize_label(df.rows[i].typ, aliases.typology).s>> :
        i \in {j \in 1..Len(df.rows) :
                  /\ ~isna(normalize_label(df.rows[j].cp, aliases.counterparty))
                  /\ ~isna(normalize_label(df.rows[j].typ, aliases.typology))}}

Zero(v) == v = Num(0, 1)

\* C23: for any two tables, a table without any row included, the call
\* returns exactly one row per normalised (counterparty, typology) key of
\* either side, and a key that only one side has carries 0 in the other
\* side's two totals and FALSE in the other side's presence flag.
C23_OuterJoinComplete ==
    Compared =>
        /\ ~comparison.raised
        /\ {KeyOf(comparison.rows[i]) : i \in 1..Len(comparison.rows)}
               = KeysOf(template_df) \cup KeysOf(collateral_df)
        /\ Len(comparison.rows) = Cardinality(KeysOf(template_df) \cup KeysOf(collateral_df))
        /\ \A i \in 1..Len(comparison.rows) :
              LET row == comparison.rows[i]
              IN  /\ KeyOf(row) \notin KeysOf(template_df) =>
                        Zero(row.gam_template) /\ Zero(row.ctp_template) /\ ~row.present_template
                  /\ KeyOf(row) \notin KeysOf(collateral_df) =>
                        Zero(row.gam_collateral) /\ Zero(row.ctp_collateral) /\ ~row.present_collat


ComparisonReturned == Compared /\ ~comparison.raised

\* C24: in every row of the result each discrepancy column is the template
\* total minus the collateral total of the same measure, after the zero
\* fill: a key only the collateral has carries minus its collateral total.
C24_TemplateMinusCollateral ==
    ComparisonReturned =>
        \A i \in 1..Len(comparison.rows) :
            LET row == comparison.rows[i]
            IN  /\ row.ecart_gam = ArithNum("-", row.gam_template, row.gam_collateral)
                /\ row.ecart_ctp = ArithNum("-", row.ctp_template, row.ctp_collateral)
                /\ ~row.present_template =>
                      /\ row.ecart_gam = ArithNum("-", Num(0, 1), row.gam_collateral)
                      /\ row.ecart_ctp = ArithNum("-", Num(0, 1), row.ctp_collateral)
                /\ ~row.present_collat =>
                      row.ecart_gam = row.gam_template /\ row.ecart_ctp = row.ctp_template

\* a key of both sides with template 100 / 10 against collateral 50 / none
C24_Witness ==
    /\ ComparisonReturned
    /\ \E i \in 1..Len(comparison.rows) :
          /\ comparison.rows[i].present_template /\ comparison.rows[i].present_collat
          /\ comparison.rows[i].gam_template = Num(100, 1)
          /\ comparison.rows[i].gam_collateral = Num(50, 1)
          /\ comparison.rows[i].ecart_gam = Num(50, 1)
          /\ comparison.rows[i].ecart_ctp = Num(10, 1)

\* C25: the rows of the result are in ascending order of the normalised
\* (counterparty, typology) key, counterparty first, whatever the order of
\* the rows of the two tables.
C25_SortedByKey ==
    ComparisonReturned =>
        \A i, j \in 1..Len(comparison.rows) :
            i < j => KeyLess(KeyOf(comparison.rows[i]), KeyOf(comparison.rows[j]))

\* a key only the template has is sorted ahead of a key of the collateral
C25_Witness ==
    /\ ComparisonReturned
    /\ Len(comparison.rows) = 2
    /\ comparison.rows[1].present_template /\ ~comparison.rows[1].present_collat
    /\ comparison.rows[2].present_collat /\ ~comparison.rows[2].present_template

\* the normalised label the alias table and the upper-casing rule give
ExpectedNorm(value, mapping) ==
    LET Of(c) ==
            IF c.k = "none" THEN PyNone
            ELSE IF \E a \in DOMAIN mapping : Lower(a) = Lower(c.s)
            THEN PyStr(mapping[CHOOSE a \in DOMAIN mapping : Lower(a) = Lower(c.s)])
            ELSE PyStr(Upper(c.s))
    IN  Of(_clean_label(value))

\* the rows of a table whose labels normalise to the key
RowsOfKey(df, key) ==
    SelectSeq(df.rows, LAMBDA r :
        /\ ExpectedNorm(r.cp, aliases.counterparty) = PyStr(key[1])
        /\ ExpectedNorm(r.typ, aliases.typology) = PyStr(key[2]))

Column(rows, f) == [i \in 1..Len(rows) |-> rows[i][f]]

----------------------------------------------------------------------------
(* Enrichment passes: sensis_import.apply_sensis_to_workbook and            *)
(* trioptima_import.apply_trioptima_to_workbook on the sheet of the         *)
(* integrated workbook.  book is the workbook file: whether it has the      *)
(* sheet, whether the header row has a "Code DI" column, and the rows below *)
(* the header row, each a function from the column letters (and "code" for  *)
(* the Code DI cell) to the cell values.                                    *)

MaxBookRows == 2           \* most rows below the header row
MaxPasses == 2             \* most enrichment passes in a run

Letters == {"code", "M", "T", "U", "AK", "AL", "AN", "AO", "AP", "AQ", "AR", "AS", "AT", "AU",
            "AW", "AX", "BD", "BE", "BF", "BG", "BH", "BI", "BK", "BL", "BS", "BT", "BU",
            "BV", "BW", "BX", "CA", "CB"}

\* sensis_import._to_float and trioptima_import._to_float (the same code)
cell_to_float(value) ==
    IF value.k = "none" THEN PyNone
    ELSE IF IsFloatLike(value) THEN ToFloat(value)
    ELSE _parse_number(PyStr(StrOf(value)))

\* lf or 0.0
OrZero(f) == IF f.k = "none" \/ (IsNumber(f) /\ f.n = 0) THEN Num(0, 1) ELSE f

\* sensis_import._mul
_mul(a, b) ==
    LET Of(fa, fb) == IF fa.k = "none" \/ fb.k = "none" THEN PyNone ELSE BinOp("*", fa, fb)
    IN  Of(cell_to_float(a), cell_to_float(b))

\* sensis_import._sum_optional, from the running sum of the builtin sum
RECURSIVE sum_collected(_, _)
sum_collected(collected, total) ==
    IF collected = <<>> THEN total
    ELSE sum_collected(Tail(collected), BinOp("+", total, Head(collected)))

_sum_optional(values) ==
    LET collected == SelectSeq([i \in 1..Len(values) |-> cell_to_float(values[i])],
                               LAMBDA v : v.k # "none")
    IN  IF collected = <<>> THEN PyNone ELSE sum_collected(collected, PyInt(0))

\* _sub_optional of both modules
_sub_optional(left, right) ==
    LET Of(lf, rf) ==
            IF lf.k = "none" /\ rf.k = "none" THEN PyNone
            ELSE BinOp("-", OrZero(lf), OrZero(rf))
    IN  Of(cell_to_float(left), cell_to_float(right))

\* trioptima_import._div_optional
_div_optional(numerator, denominator) ==
    LET Of(num, den) ==
            IF num.k = "none" \/ den.k = "none" \/ (IsNumber(den) /\ den.n = 0) THEN PyNone
            ELSE BinOp("/", num, den)
    IN  Of(cell_to_float(numerator), cell_to_float(denominator))

\* code_cell is None or (isinstance(code_cell, str) and not code_cell.strip())
IsEmptyCode(code_cell) ==
    code_cell.k = "none" \/ (code_cell.k = "str" /\ Strip(code_cell.s) = <<>>)

\* str(code_cell).strip()
code_of(code_cell) == Strip(StrOf(code_cell))

\* a variant of the loop that passes over the rows without a code
scan_stop_ToEnd(rows, from) == Len(rows) + 1

\* the loop over the rows from row `from`: the row at which it breaks, or
\* one past the last row
RECURSIVE scan_stop(_, _)
scan_stop(rows, from) ==
    IF from > Len(rows) THEN from
    ELSE IF IsEmptyCode(rows[from]["code"]) THEN from
    ELSE scan_stop(rows, from + 1)

\* the codes appended to missing_codes, in row order
missing_of(rows, stop, table) ==
    LET idx == Ascending({i \in 1..(stop - 1) : code_of(rows[i]["code"]) \notin DOMAIN table})
    IN  [k \in 1..Len(idx) |-> code_of(rows[idx[k]]["code"])]

\* the body of the loop of apply_sensis_to_workbook for a row with an entry
sensis_row(row, entry) ==
    LET Values(r) ==
            [r EXCEPT !["BE"] = entry.dirty_pct,
                      !["BD"] = _mul(entry.dirty_pct, r["M"]),
                      !["BG"] = entry.clean_pct,
                      !["BF"] = _mul(entry.clean_pct, r["M"]),
                      !["BI"] = entry.accrued_pct,
                      !["BH"] = _mul(entry.accrued_pct, r["M"]),
                      !["T"] = entry.duration_leg1,
                      !["U"] = entry.sensis_leg1,
                      !["AK"] = entry.duration_leg2,
                      !["AL"] = entry.sensis_leg2,
                      !["AT"] = entry.duration_total,
                      !["AU"] = _sum_optional(<<entry.sensis_leg1, entry.sensis_leg2>>)]
        Comparatives(r) ==
            [r EXCEPT !["BK"] = _sub_optional(r["AN"], r["AW"]),
                      !["BL"] = _sub_optional(r["AO"], r["AX"]),
                      !["BS"] = _sub_optional(r["AN"], r["BD"]),
                      !["BT"] = _sub_optional(r["AO"], r["BE"]),
                      !["BU"] = _sub_optional(r["AP"], r["BF"]),
                      !["BV"] = _sub_optional(r["AQ"], r["BG"]),
                      !["BW"] = _sub_optional(r["AR"], r["BH"]),
                      !["BX"] = _sub_optional(r["AS"], r["BI"]),
                      !["CA"] = _sub_optional(r["AW"], r["BD"]),
                      !["CB"] = _sub_optional(r["AX"], r["BE"])]
    IN  Comparatives(Values(row))

\* a variant of the body of the loop of apply_trioptima_to_workbook that
\* leaves BD and BE as they are
trioptima_row_KeepBD(row, mtm_value) ==
    LET Values(r) ==
            [r EXCEPT !["AW"] = mtm_value,
                      !["AX"] = _div_optional(mtm_value, r["M"])]
        Comparatives(r) ==
            [r EXCEPT !["BK"] = _sub_optional(row["AN"], mtm_value),
                      !["BS"] = _sub_optional(row["AN"], r["BD"]),
                      !["BT"] = _sub_optional(r["AO"], r["BE"]),
                      !["CA"] = _sub_optional(r["AW"], r["BD"]),
                      !["CB"] = _sub_optional(r["AX"], r["BE"])]
    IN  Comparatives(Values(row))

\* the body of the loop of apply_trioptima_to_workbook for a row whose code
\* has a value in the mapping
trioptima_row(row, mtm_value) ==
    LET Values(r, bd_value) ==
            [r EXCEPT !["AW"] = mtm_value,
                      !["AX"] = _div_optional(mtm_value, r["M"]),
                      !["BD"] = bd_value,
                      !["BE"] = _div_optional(bd_value, r["M"])]
        Comparatives(r) ==
            [r EXCEPT !["BK"] = _sub_optional(row["AN"], mtm_value),
                      !["BS"] = _sub_optional(row["AN"], r["BD"]),
                      !["BT"] = _sub_optional(r["AO"], r["BE"]),
                      !["CA"] = _sub_optional(r["AW"], r["BD"]),
                      !["CB"] = _sub_optional(r["AX"], r["BE"])]
    IN  Comparatives(Values(row, _sub_optional(row["AN"], mtm_value)))

\* what a call leaves: the exception raised ("" for none), the file, and
\* the first two members of the tuple returned
PassResult(raised, bk, updated, missing) ==
    [raised |-> raised, book |-> bk, updated |-> updated, missing |-> missing]

\* the scan of both functions, lines 211-291 of sensis_import.py and lines
\* 295-368 of trioptima_import.py; hit rows are rewritten and the file saved
scan_rows(bk, table, fn) ==
    LET Scan(stop) ==
            PassResult("",
                [bk EXCEPT !.rows = [i \in 1..Len(bk.rows) |->
                    IF i < stop /\ code_of(bk.rows[i]["code"]) \in DOMAIN table
                    THEN IF fn = "sensis"
                         THEN sensis_row(bk.rows[i], table[code_of(bk.rows[i]["code"])])
                         ELSE trioptima_row(bk.rows[i], table[code_of(bk.rows[i]["code"])])
                    ELSE bk.rows[i]]],
                Cardinality({i \in 1..(stop - 1) : code_of(bk.rows[i]["code"]) \in DOMAIN table}),
                missing_of(bk.rows, stop, table))
    IN  IF ~bk.sheet THEN PassResult("KeyError", bk, 0, <<>>)
        ELSE IF ~bk.code_col THEN PassResult("KeyError", bk, 0, <<>>)
        ELSE Scan(scan_stop(bk.rows, 1))

\* sensis_import.apply_sensis_to_workbook on an existing file
sensis_pass(bk, table) == scan_rows(bk, table, "sensis")

\* trioptima_import.apply_trioptima_to_workbook on an existing file
trioptima_pass(bk, table) ==
    IF table = <<>> THEN PassResult("", bk, 0, <<>>)
    ELSE scan_rows(bk, table, "trioptima")

(* Specification SpecEnrich: up to MaxPasses passes, in any order           *)

BlankRow == [l \in Letters |-> PyNone]

BookRows == {
    [BlankRow EXCEPT !["code"] = PyStr(T_AB12), !["M"] = Num(100, 1), !["AN"] = Num(50, 1),
                     !["AO"] = Num(1, 2)],
    [BlankRow EXCEPT !["code"] = PyStr(<<" ">> \o T_AB12), !["M"] = PyStr(<<"5", "0">>),
                     !["BD"] = Num(7, 1), !["BE"] = Num(7, 1), !["AW"] = Num(9, 1)],
    [BlankRow EXCEPT !["code"] = PyStr(T_CD34), !["M"] = Num(0, 1), !["AN"] = Num(50, 1)],
    [BlankRow EXCEPT !["code"] = PyStr(T_CD34), !["AN"] = PyStr(<<"=", "X">>)],
    [BlankRow EXCEPT !["M"] = Num(100, 1), !["AN"] = Num(50, 1)],
    [BlankRow EXCEPT !["code"] = PyStr(<<" ", NBSP>>), !["M"] = Num(100, 1)] }

Books ==
    {[sheet |-> TRUE, code_col |-> TRUE, rows |-> rows] :
        rows \in UNION {[1..n -> BookRows] : n \in 0..MaxBookRows}}
    \cup {[sheet |-> FALSE, code_col |-> FALSE, rows |-> <<>>],
          [sheet |-> TRUE, code_col |-> FALSE, rows |-> <<BlankRow>>]}

SensisEntry ==
    [dirty_pct |-> Num(1, 2), clean_pct |-> Num(2, 5), accrued_pct |-> Num(1, 10),
     sensis_leg1 |-> Num(3, 1), sensis_leg2 |-> PyNone,
     duration_leg1 |-> Num(1, 1), duration_leg2 |-> PyNone, duration_total |-> Num(2, 1)]

SensisTables == {<<>>, T_AB12 :> SensisEntry}

MtmMappings == {<<>>, T_AB12 :> Num(30, 1), (T_AB12 :> Num(30, 1)) @@ (T_CD34 :> Num(-5, 1))}

NoReport == [fn |-> "", raised |-> "", updated |-> 0, missing |-> <<>>, n |-> 0]

InitEnrich ==
    /\ pc = "enr_call"
    /\ book \in Books
    /\ prev_book = book
    /\ sensis \in SensisTables
    /\ mtm_mapping \in MtmMappings
    /\ report = NoReport
    /\ FmtIdle /\ RecIdle
    /\ LabIdle /\ PerIdle /\ SrcIdle /\ NumIdle /\ CoreIdle

Reported(fn, res) ==
    [fn |-> fn, raised |-> res.raised, updated |-> res.updated, missing |-> res.missing,
     n |-> report.n + 1]

apply_sensis_to_workbook ==
    /\ pc = "enr_call"
    /\ report.n < MaxPasses
    /\ LET Done(res) == book' = res.book /\ report' = Reported("sensis", res)
       IN  Done(sensis_pass(book, sensis))
    /\ prev_book' = book
    /\ UNCHANGED <<pc, sensis, mtm_mapping, fmtVars, recVars, labVars, perVars, srcVars,
                   numVars, coreVars>>

apply_trioptima_to_workbook ==
    /\ pc = "enr_call"
    /\ report.n < MaxPasses
    /\ LET Done(res) == book' = res.book /\ report' = Reported("trioptima", res)
       IN  Done(trioptima_pass(book, mtm_mapping))
    /\ prev_book' = book
    /\ UNCHANGED <<pc, sensis, mtm_mapping, fmtVars, recVars, labVars, perVars, srcVars,
                   numVars, coreVars>>

NextEnrich == apply_sensis_to_workbook \/ apply_trioptima_to_workbook

SpecEnrich == InitEnrich /\ [][NextEnrich]_vars

----------------------------------------------------------------------------
(* Claims about the enrichment passes (SpecEnrich)                          *)

\* the last pass returned: prev_book is the file it was given, book the
\* file it left, report what it returned
Passed == pc = "enr_call" /\ report.n >= 1 /\ report.raised = ""

\* the first row without a code, one past the last row when all have one
FirstEmptyCode(rows) ==
    IF \E i \in 1..Len(rows) : IsEmptyCode(rows[i]["code"])
    THEN CHOOSE i \in 1..Len(rows) :
             /\ IsEmptyCode(rows[i]["code"])
             /\ \A j \in 1..(i - 1) : ~IsEmptyCode(rows[j]["code"])
    ELSE Len(rows) + 1

\* the table supplied to the last pass
TableUsed == IF report.fn = "sensis" THEN sensis ELSE mtm_mapping

\* the rows from the first empty code on are as before, the rows above it
\* whose code the table lacks are as before and reported missing, and
\* updated + len(missing) counts the rows above it
ScanFrame ==
    LET rows == prev_book.rows
        stop == FirstEmptyCode(prev_book.rows)
        absent == {i \in 1..(FirstEmptyCode(prev_book.rows) - 1) :
                      code_of(prev_book.rows[i]["code"]) \notin DOMAIN TableUsed}
    IN  /\ Len(book.rows) = Len(rows)
        /\ \A i \in stop..Len(rows) : book.rows[i] = rows[i]
        /\ \A i \in absent : book.rows[i] = rows[i]
        /\ Len(report.missing) = Cardinality(absent)
        /\ \A k \in 1..Len(report.missing) :
              report.missing[k] = code_of(rows[Ascending(absent)[k]]["code"])
        /\ report.updated + Len(report.missing) = stop - 1

\* C29 (as stated): after a pass of either function the rows from the first
\* empty Code DI cell on are unmodified, a row above it whose code is not in
\* the supplied table is unchanged and its code is in the missing list, and
\* updated + len(missing) is the number of rows above the first empty code.
C29_ScanStopsAtFirstEmptyCode == Passed => ScanFrame

\* C29 (amended): the same, except that apply_trioptima_to_workbook with an
\* empty mapping scans nothing: it leaves the file as it is and returns 0
\* updated rows and an empty missing list, whatever codes the rows carry.
C29_ScanFrameUnlessEmptyMapping ==
    Passed =>
        IF report.fn = "trioptima" /\ mtm_mapping = <<>>
        THEN book = prev_book /\ report.updated = 0 /\ report.missing = <<>>
        ELSE ScanFrame

\* a pass that updated the first row, reported the second missing or
\* stopped at it
C29_Witness ==
    /\ Passed
    /\ Len(prev_book.rows) = 2
    /\ report.updated = 1
    /\ book.rows[1] # prev_book.rows[1]
    /\ IsEmptyCode(prev_book.rows[2]["code"])
    /\ prev_book.rows[2]["M"] # PyNone
    /\ book.rows[2] = prev_book.rows[2]

\* C30: for every row a pass of apply_trioptima_to_workbook updates,
\* afterwards AW is the supplied MTM, BD is AN - AW with an AN that is no
\* number counted as 0, BE is BD / notional and None when the notional is
\* None or 0, whatever BD and BE held before, and BS, BT, CA, CB are
\* AN - BD, AO - BE, AW - BD, AX - BE of the new BD and BE.
C30_TrioptimaOverwritesBD ==
    (Passed /\ report.fn = "trioptima") =>
        \A i \in 1..(FirstEmptyCode(prev_book.rows) - 1) :
            code_of(prev_book.rows[i]["code"]) \in DOMAIN mtm_mapping =>
                LET old == prev_book.rows[i]
                    new == book.rows[i]
                    mtm == mtm_mapping[code_of(prev_book.rows[i]["code"])]
                    an  == cell_to_float(prev_book.rows[i]["AN"])
                    m   == cell_to_float(prev_book.rows[i]["M"])
                    bd  == ArithNum("-", IF an.k = "none" THEN Num(0, 1) ELSE an, mtm)
                    be  == IF m.k = "none" \/ m.n = 0 THEN PyNone ELSE ArithNum("/", bd, m)
                IN  /\ new["AW"] = mtm
                    /\ new["BD"] = bd
                    /\ new["BE"] = be
                    /\ new["BS"] = _sub_optional(old["AN"], bd)
                    /\ new["BT"] = _sub_optional(old["AO"], be)
                    /\ new["CA"] = _sub_optional(mtm, bd)
                    /\ new["CB"] = _sub_optional(new["AX"], be)

\* a row to which the sensis pass gave BD = 50 and BE = 1/2, then given
\* BD = 50 - 30 and BE = 20 / 100 by the trioptima pass
C30_Witness ==
    /\ Passed
    /\ report.fn = "trioptima"
    /\ report.n = 2
    /\ \E i \in 1..Len(book.rows) :
          /\ prev_book.rows[i]["BD"] = Num(50, 1) /\ prev_book.rows[i]["BE"] = Num(1, 2)
          /\ book.rows[i]["AW"] = Num(30, 1)
          /\ book.rows[i]["BD"] = Num(20, 1) /\ book.rows[i]["BE"] = Num(1, 5)
          /\ book.rows[i]["BS"] = Num(30, 1) /\ book.rows[i]["CA"] = Num(10, 1)

====
